---- MODULE Spec2Model ----
(***************************************************************************)
(* EnOcean-to-MQTT bridge (ESDN83/HA_enoceanmqtt-addon-ui).                *)
(*                                                                         *)
(* The module models the ESP3 framer of the serial reader thread, the      *)
(* outbound frame builder, the telegram dispatcher with its per-telegram   *)
(* coroutines, the device registry lookup, the telegram ring buffer and    *)
(* the MQTT handler with its state cache file.                             *)
(*                                                                         *)
(* Bytes are integers 0..255, byte strings are sequences of bytes, text    *)
(* strings are sequences of one-character strings.                         *)
(***************************************************************************)
EXTENDS Integers, Sequences, FiniteSets, TLC

VARIABLES
    rx,               \* bytes on the transport that the reader has not read yet
    buffer,           \* _read_loop_thread: the local bytearray `buffer`
    emitted,          \* packets that passed both CRC checks, in order (with the bytes removed)
    tasks,            \* coroutines handed to the event loop, in creation order
    sh_connected,     \* SerialHandler._connected
    sent,             \* last send_telegram call: its arguments and return value
    writes,           \* byte strings given to serial.write / socket.send, one per call
    junk,             \* resync experiment: the bytes put in front of the stream
    rest,             \* resync experiment: the stream itself
    outJB,            \* resync experiment: packets parsed from junk followed by rest
    outB,             \* resync experiment: packets parsed from rest alone
    fed,              \* resync experiment: both parsers have run
    devices,          \* DeviceManager.devices, in insertion order
    lookup,           \* last get_device_by_address call: its argument and its result
    teach_in_callback,\* SerialHandler._teach_in_callback is set
    teach_log,        \* records handed to the teach-in callback, in order
    ring,             \* TelegramBuffer._buffer
    unknown_devices,  \* TelegramBuffer._unknown_devices
    clock,            \* value of the next datetime.now()
    connected,        \* MQTTHandler._connected
    cache_states,     \* MQTTHandler.cache_states (CACHE_DEVICE_STATES)
    last_states,      \* MQTTHandler._last_states, in insertion order
    file,             \* the state cache file last_states.json
    published,        \* messages handed to the MQTT client by this process, in order
    dropped,          \* publishes refused because the handler was not connected
    main_pc,          \* position of the lifespan start-up
    restore_idx,      \* load_persisted_states: index of the next entry to republish
    boot_file,        \* the cache file as load_persisted_states read it
    ncalls,           \* number of publish_state calls made so far
    nrestarts,        \* number of process restarts
    subscriptions,    \* topic patterns given to client.subscribe, in order
    will,             \* Last-Will message set on the MQTT client
    commands,         \* commands logged by _handle_command, in order
    max_size,         \* TelegramBuffer.max_size
    added,            \* every entry given to TelegramBuffer._buffer.append, in order
    decode_call,      \* last _decode_telegram call: its arguments and its result
    custom_mappings,  \* MappingManager.custom_mappings, in insertion order
    mapping_call,     \* last get_mapping call: argument, custom mappings then, result
    mappings_file,    \* mapping.yaml: the YAML mapping it holds, if the file exists
    ops,              \* the add_device / update_device / delete_device coroutines
    devices_file,     \* devices.json, as text, if the file exists
    legacy_devices_file, \* enoceanmqtt.devices, as lines, if the file exists
    prefix,           \* MQTTHandler.prefix (MQTT_PREFIX)
    running,          \* SerialHandler._running
    reader_pc,        \* position of the reader thread
    read_age,         \* seconds the reader thread has been blocked in its read
    transport,        \* the port or socket: up, error, closed (by the peer), closing, gone
    read_failed,      \* a read of the reader thread has met a failed transport
    disc_pc,          \* position of SerialHandler.disconnect()
    join_wait,        \* seconds disconnect() has waited in join
    accesses,         \* reads and writes of MQTTHandler fields so far, with their thread
    publishing,       \* a publish() between its test of _connected and client.publish
    teach_in_call,     \* last _is_teach_in call: its telegram and its result
    wire,              \* the frames a transceiver has put on the transport, in order
    profiles,          \* EEPManager.profiles, in insertion order
    custom_eep,        \* the files of the custom_eep directory: name and YAML document
    readers,           \* the reader threads started so far: position, read age, buffer
    restart_pc,        \* position of the restart_services handler
    message_callbacks, \* MQTTHandler._message_callbacks: the registered topic patterns
    broker_subs        \* the topic patterns the broker holds for the client's session

framerVars == <<rx, buffer, emitted>>
sendVars == <<sh_connected, sent, writes>>
resyncVars == <<junk, rest, outJB, outB, fed>>
registryVars == <<devices, lookup>>
bufferVars == <<teach_in_callback, teach_log, ring, unknown_devices, max_size, added>>
mqttVars == <<connected, cache_states, last_states, file, published, dropped>>
bootVars == <<main_pc, restore_idx, boot_file, ncalls, nrestarts>>
clientVars == <<subscriptions, will, commands>>
callVars == <<decode_call, custom_mappings, mapping_call, mappings_file>>
storeVars == <<ops, devices_file, legacy_devices_file>>
configVars == <<prefix>>
\* the device store and the configuration, which most actions leave alone
readerVars == <<running, reader_pc, read_age, transport, read_failed, disc_pc, join_wait>>
threadVars == <<accesses, publishing>>
lifeVars == <<readers, restart_pc, message_callbacks, broker_subs>>
unitVars == <<teach_in_call, wire, profiles, custom_eep, lifeVars>>
restVars == <<storeVars, configVars, readerVars, threadVars, unitVars>>
vars == <<rx, buffer, emitted, tasks, sh_connected, sent, writes, junk, rest, outJB, outB, fed,
          devices, lookup, teach_in_callback, teach_log, ring, unknown_devices, clock,
          connected, cache_states, last_states, file, published, dropped,
          main_pc, restore_idx, boot_file, ncalls, nrestarts,
          subscriptions, will, commands, max_size, added,
          decode_call, custom_mappings, mapping_call, mappings_file,
          ops, devices_file, legacy_devices_file, prefix,
          running, reader_pc, read_age, transport, read_failed, disc_pc, join_wait,
          accesses, publishing,
          teach_in_call,
          wire,
          profiles,
          custom_eep, readers, restart_pc, message_callbacks, broker_subs>>

\* None is the empty sequence and a present value v is <<v>>
None == <<>>
Some(v) == <<v>>

(***************************************************************************)
(* Bounds of the model.                                                    *)
(***************************************************************************)
MaxPieces == 2        \* pieces concatenated into an input byte stream
MaxChunk == 3         \* largest partial read (a read may also return all bytes)
MaxPayload == 1       \* longest payload given to send_telegram
MaxDevices == 2       \* devices in the registry
MaxTelegrams == 2     \* radio frames received in one run
MaxOps == 2           \* add_device / update_device / delete_device calls
MaxRingSize == 2      \* largest max_size a TelegramBuffer is constructed with
MaxAdds == 4          \* add() calls on one TelegramBuffer
MaxFields == 2        \* fields of a profile given to the decoder
MaxDecodeBytes == 2   \* payload bytes given to the decoder
MaxBurst == 1025      \* radio frames read while the event loop runs nothing new
MaxCalls == 2         \* publish_state calls made in one behaviour
MaxRestarts == 1      \* process restarts
MaxConnects == 2      \* times the broker connection is established
MaxMessages == 2      \* command messages handled

(***************************************************************************)
(* ESP3 protocol constants and CRC-8.                                      *)
(***************************************************************************)
SYNC_BYTE == 85
PACKET_TYPE_RADIO == 1
PACKET_TYPE_RESPONSE == 2
PACKET_TYPE_EVENT == 4

CRC8_TABLE == <<
    0, 7, 14, 9, 28, 27, 18, 21, 56, 63, 54, 49, 36, 35, 42, 45,
    112, 119, 126, 121, 108, 107, 98, 101, 72, 79, 70, 65, 84, 83, 90, 93,
    224, 231, 238, 233, 252, 251, 242, 245, 216, 223, 214, 209, 196, 195, 202, 205,
    144, 151, 158, 153, 140, 139, 130, 133, 168, 175, 166, 161, 180, 179, 186, 189,
    199, 192, 201, 206, 219, 220, 213, 210, 255, 248, 241, 246, 227, 228, 237, 234,
    183, 176, 185, 190, 171, 172, 165, 162, 143, 136, 129, 134, 147, 148, 157, 154,
    39, 32, 41, 46, 59, 60, 53, 50, 31, 24, 17, 22, 3, 4, 13, 10,
    87, 80, 89, 94, 75, 76, 69, 66, 111, 104, 97, 102, 115, 116, 125, 122,
    137, 142, 135, 128, 149, 146, 155, 156, 177, 182, 191, 184, 173, 170, 163, 164,
    249, 254, 247, 240, 229, 226, 235, 236, 193, 198, 207, 200, 221, 218, 211, 212,
    105, 110, 103, 96, 117, 114, 123, 124, 81, 86, 95, 88, 77, 74, 67, 68,
    25, 30, 23, 16, 5, 2, 11, 12, 33, 38, 47, 40, 61, 58, 51, 52,
    78, 73, 64, 71, 82, 85, 92, 91, 118, 113, 120, 127, 106, 109, 100, 99,
    62, 57, 48, 55, 34, 37, 44, 43, 6, 1, 8, 15, 26, 29, 20, 19,
    174, 169, 160, 167, 178, 181, 188, 187, 150, 145, 152, 159, 138, 141, 132, 131,
    222, 217, 208, 215, 194, 197, 204, 203, 230, 225, 232, 239, 250, 253, 244, 243 >>

\* a ^ b on non-negative integers
RECURSIVE Xor(_, _)
Xor(a, b) ==
    IF a = 0 THEN b
    ELSE IF b = 0 THEN a
    ELSE (((a % 2) + (b % 2)) % 2) + 2 * Xor(a \div 2, b \div 2)

\* crc8(data): crc = 0; for byte in data: crc = CRC8_TABLE[crc ^ byte]
RECURSIVE Crc8From(_, _)
Crc8From(crc, data) ==
    IF data = <<>> THEN crc
    ELSE \* the new crc is bound as a value before the next byte is taken
         CHOOSE r \in {Crc8From(c, Tail(data)) :
                           c \in {CRC8_TABLE[Xor(crc, Head(data)) + 1]}} : TRUE

crc8(data) == Crc8From(0, data)

\* buffer[a:b] of Python (0-based, b exclusive) on a sequence
Slice(s, a, b) == SubSeq(s, a + 1, b)

(***************************************************************************)
(* The parse loop of _read_loop_thread.                                    *)
(***************************************************************************)
\* a parser that leaves out the header CRC check
HeaderCrcOkSkipped(buf) == TRUE

\* crc8(bytes(buffer[1:5])) != header_crc is false
HeaderCrcOk(buf) == crc8(Slice(buf, 1, 5)) = buf[6]

\* a parser that leaves out the data CRC check
DataCrcOkSkipped(packet_data, optional_data, data_crc) == TRUE

\* crc8(packet_data + optional_data) != data_crc is false
DataCrcOk(packet_data, optional_data, data_crc) ==
    crc8(packet_data \o optional_data) = data_crc

\* a parser that drops the six header bytes after a failed check
SkipHeader(buf) == Slice(buf, 6, Len(buf))

\* a parser that drops the whole frame the header announces after a failed check
SkipFrame(buf) ==
    LET total_len == 6 + buf[2] * 256 + buf[3] + buf[4] + 1
    IN  Slice(buf, IF total_len <= Len(buf) THEN total_len ELSE 6, Len(buf))

\* buffer.pop(0): what is left of the buffer after a failed check
SkipByte(buf) == Tail(buf)

\* while len(buffer) >= 6: ... ; the result is the buffer left and the packets
\* that passed both checks, each with the bytes that were removed for it
RECURSIVE ParseLoop(_, _)
ParseLoop(buf, out) ==
    IF Len(buf) < 6 THEN [buffer |-> buf, out |-> out]
    ELSE IF buf[1] # SYNC_BYTE THEN ParseLoop(Tail(buf), out)
    ELSE LET data_len == buf[2] * 256 + buf[3]
             optional_len == buf[4]
             packet_type == buf[5]
             total_len == 6 + data_len + optional_len + 1
         IN  IF ~HeaderCrcOk(buf) THEN ParseLoop(SkipByte(buf), out)
             ELSE IF Len(buf) < total_len THEN [buffer |-> buf, out |-> out]
             ELSE LET packet_data == Slice(buf, 6, 6 + data_len)
                      optional_data == Slice(buf, 6 + data_len, 6 + data_len + optional_len)
                      data_crc == buf[6 + data_len + optional_len + 1]
                  IN  IF ~DataCrcOk(packet_data, optional_data, data_crc)
                      THEN ParseLoop(SkipByte(buf), out)
                      ELSE ParseLoop(Slice(buf, total_len, Len(buf)),
                                     Append(out, [packet_type |-> packet_type,
                                                  data |-> packet_data,
                                                  optional |-> optional_data,
                                                  raw |-> Slice(buf, 0, total_len)]))

\* the coroutine _process_radio_telegram(packet_data, optional_data) as created by
\* asyncio.run_coroutine_threadsafe: scheduled, not started
NewTelegramTask(p) ==
    [kind |-> "telegram", pc |-> "start", data |-> p.data, optional |-> p.optional,
     is_teach_in |-> FALSE, device_name |-> None, eep_id |-> None, state |-> None,
     content |-> None, io_failed |-> FALSE, file_at_return |-> None]

\* a dispatcher that starts a coroutine for a packet of any type
RECURSIVE DispatchAllTypes(_)
DispatchAllTypes(out) ==
    IF out = <<>> THEN <<>>
    ELSE <<NewTelegramTask(Head(out))>> \o DispatchAllTypes(Tail(out))

RECURSIVE DispatchAll(_)
DispatchAll(out) ==
    IF out = <<>> THEN <<>>
    ELSE IF Head(out).packet_type = PACKET_TYPE_RADIO
         THEN <<NewTelegramTask(Head(out))>> \o DispatchAll(Tail(out))
         ELSE DispatchAll(Tail(out))

\* a reader whose buffer does not outlive one read
ReadLoopThreadFresh(data) ==
    LET r == ParseLoop(data, <<>>)
    IN  /\ buffer' = r.buffer
        /\ emitted' = emitted \o r.out
        /\ tasks' = tasks \o DispatchAll(r.out)

\* one iteration of `while self._running` in which _read_bytes returned `data`
ReadLoopThread(data) ==
    LET r == ParseLoop(buffer \o data, <<>>)
    IN  /\ buffer' = r.buffer
        /\ emitted' = emitted \o r.out
        /\ tasks' = tasks \o DispatchAll(r.out)

(***************************************************************************)
(* send_telegram: the packet handed to the transport.                      *)
(***************************************************************************)
\* a sender whose data CRC leaves out the optional block
SendDataCrcDataOnly(packet_data, optional) == crc8(packet_data)

\* data_crc = crc8(packet_data + optional)
SendDataCrc(packet_data, optional) == crc8(packet_data \o optional)

\* a 32-bit value, held as its upper and its lower 16 bits
U32(hi, lo) == [hi |-> hi, lo |-> lo]

\* the four bytes in little-endian order
to_bytes4_little(n) == <<n.lo % 256, n.lo \div 256, n.hi % 256, n.hi \div 256>>

\* n.to_bytes(4, 'big')
to_bytes4(n) == <<n.hi \div 256, n.hi % 256, n.lo \div 256, n.lo % 256>>

\* the packet built from rorg, data and the bytes of sender_id and destination
SendPacket(sender_id, rorg, data, destination) ==
    LET status == 0
        packet_data == <<rorg>> \o data \o sender_id \o <<status>>
        optional == <<3>> \o destination \o <<255, 0>>
        data_len == Len(packet_data)
        optional_len == Len(optional)
        header == <<(data_len \div 256) % 256, data_len % 256, optional_len, PACKET_TYPE_RADIO>>
        header_crc == crc8(header)
        data_crc == SendDataCrc(packet_data, optional)
    IN  [packet |-> <<SYNC_BYTE>> \o header \o <<header_crc>> \o packet_data \o optional
                        \o <<data_crc>>,
         packet_data |-> packet_data,
         optional |-> optional]

(***************************************************************************)
(* Text: str.upper, str.startswith, hexadecimal and decimal formatting.    *)
(***************************************************************************)
LowerChars == <<"a", "b", "c", "d", "e", "f", "g", "h", "i", "j", "k", "l", "m",
                "n", "o", "p", "q", "r", "s", "t", "u", "v", "w", "x", "y", "z">>
UpperChars == <<"A", "B", "C", "D", "E", "F", "G", "H", "I", "J", "K", "L", "M",
                "N", "O", "P", "Q", "R", "S", "T", "U", "V", "W", "X", "Y", "Z">>
HexDigits == <<"0", "1", "2", "3", "4", "5", "6", "7", "8", "9", "A", "B", "C", "D", "E", "F">>

UpperChar(c) ==
    IF \E i \in 1..26 : LowerChars[i] = c
    THEN UpperChars[CHOOSE i \in 1..26 : LowerChars[i] = c]
    ELSE c

\* s.upper()
str_upper(s) == [i \in 1..Len(s) |-> UpperChar(s[i])]

\* s.startswith(p)
startswith(s, p) == Len(s) >= Len(p) /\ SubSeq(s, 1, Len(p)) = p

\* f"{b:02X}"
Hex2(b) == <<HexDigits[(b \div 16) + 1], HexDigits[(b % 16) + 1]>>

\* bytes.hex().upper()
RECURSIVE HexBytes(_)
HexBytes(bs) == IF bs = <<>> THEN <<>> ELSE Hex2(Head(bs)) \o HexBytes(Tail(bs))

\* str(n) for n >= 0
RECURSIVE IntToStr(_)
IntToStr(n) ==
    IF n < 10 THEN <<HexDigits[n + 1]>>
    ELSE IntToStr(n \div 10) \o <<HexDigits[(n % 10) + 1]>>

Prefix0x == <<"0", "x">>

(***************************************************************************)
(* Python dict as a sequence of <<key, value>> pairs in insertion order.   *)
(***************************************************************************)
DictHas(d, k) == \E i \in 1..Len(d) : d[i][1] = k
DictIndex(d, k) == CHOOSE i \in 1..Len(d) : d[i][1] = k
DictGet(d, k) == d[DictIndex(d, k)][2]
DictSet(d, k, v) ==
    IF DictHas(d, k) THEN [d EXCEPT ![DictIndex(d, k)] = <<k, v>>] ELSE Append(d, <<k, v>>)
DictKeys(d) == {d[i][1] : i \in 1..Len(d)}

(***************************************************************************)
(* Device registry.                                                        *)
(***************************************************************************)
\* Device.eep_id: f"{self.rorg}-{self.func}-{self.type}"
eep_id(device) == device.rorg \o <<"-">> \o device.func \o <<"-">> \o device.type

\* get_device_by_address: the query as compared
QueryAddress(address) ==
    str_upper(IF ~startswith(address, Prefix0x) THEN Prefix0x \o address ELSE address)

\* get_device_by_address: a device's address as compared
DeviceAddress(device) ==
    LET dev_addr == str_upper(device.address)
    IN  IF ~startswith(dev_addr, Prefix0x) THEN Prefix0x \o dev_addr ELSE dev_addr

\* get_device_by_address(address): the first device whose address compares equal
GetDeviceByAddress(devs, address) ==
    LET hits == {i \in 1..Len(devs) : DeviceAddress(devs[i]) = QueryAddress(address)}
    IN  IF hits = {} THEN None
        ELSE Some(devs[CHOOSE i \in hits : \A j \in hits : i <= j])

(***************************************************************************)
(* EEP store and the generic decoder.                                      *)
(***************************************************************************)
Chars(a, b) == <<a, b>>
EepId(r, f, t) == r \o <<"-">> \o f \o <<"-">> \o t

\* values of a decoded map: text, integer, or a number rounded to 2 decimals
\* (kept as hundredths)
StrV(s) == [t |-> "str", s |-> s, n |-> 0]
IntV(n) == [t |-> "int", s |-> <<>>, n |-> n]
DecV(h) == [t |-> "dec", s |-> <<>>, n |-> h]
Key(name) == [name |-> name, suffix |-> ""]
TextKey(name) == [name |-> name, suffix |-> "_text"]

\* EEPManager.profiles: A5-02-05 as the bundled library describes it (TMP, 8 bits at
\* offset 16, 0..255 scaled to 40..0) and F6-02-01 as _load_minimal_profiles makes
\* it (no fields)
Profiles == {
    [eep_id |-> EepId(Chars("A", "5"), Chars("0", "2"), Chars("0", "5")),
     fields |-> << [shortcut |-> "TMP", offset |-> 16, size |-> 8, type |-> "value",
                    values |-> <<>>, min |-> 0, max |-> 255,
                    scale_min |-> 40, scale_max |-> 0] >>],
    [eep_id |-> EepId(Chars("F", "6"), Chars("0", "2"), Chars("0", "1")),
     fields |-> <<>>] }

\* get_profile(eep_id): self.profiles.get(eep_id.upper())
get_profile(id) ==
    IF \E p \in Profiles : p.eep_id = str_upper(id)
    THEN Some(CHOOSE p \in Profiles : p.eep_id = str_upper(id))
    ELSE None

\* the bits of a byte string, most significant first
RECURSIVE ByteBits(_, _)
ByteBits(b, n) == IF n = 0 THEN <<>> ELSE ByteBits(b \div 2, n - 1) \o <<b % 2>>
RECURSIVE Bits(_)
Bits(bs) == IF bs = <<>> THEN <<>> ELSE ByteBits(Head(bs), 8) \o Bits(Tail(bs))
RECURSIVE BitsValue(_)
BitsValue(b) == IF b = <<>> THEN 0 ELSE 2 * BitsValue(SubSeq(b, 1, Len(b) - 1)) + b[Len(b)]

\* an extraction that takes the lowest `size` bits whatever the offset
RawValueLowBits(payload, offset, size) ==
    BitsValue(SubSeq(Bits(payload), Len(payload) * 8 - size + 1, Len(payload) * 8))

\* (data_int >> shift) & mask with shift = data_bits - offset - size >= 0
RawValue(payload, offset, size) == BitsValue(SubSeq(Bits(payload), offset + 1, offset + size))

\* round(scale_min + (raw - min) * (scale_max - scale_min) / (max - min), 2), in hundredths
Scaled(f, raw) ==
    LET d == f.max - f.min
        n == f.scale_min * d + (raw - f.min) * (f.scale_max - f.scale_min)
        num == IF d > 0 THEN n ELSE -n
        den == IF d > 0 THEN d ELSE -d
    IN  (200 * num + den) \div (2 * den)

\* the first item of an enum whose value prints like the raw value
EnumText(f, raw) ==
    LET hits == {i \in 1..Len(f.values) : f.values[i].value = IntToStr(raw)}
    IN  IF hits = {} THEN None
        ELSE Some(f.values[CHOOSE i \in hits : \A j \in hits : i <= j].description)

RECURSIVE DecodeFields(_, _, _)
DecodeFields(decoded, payload, fields) ==
    IF fields = <<>> THEN decoded
    ELSE LET f == Head(fields)
             shift == Len(payload) * 8 - f.offset - f.size
             raw == RawValue(payload, f.offset, f.size)
             d1 == IF shift < 0 THEN decoded
                   ELSE IF f.type = "enum"
                   THEN LET d0 == DictSet(decoded, Key(f.shortcut), IntV(raw))
                        IN  IF EnumText(f, raw) = None THEN d0
                            ELSE DictSet(d0, TextKey(f.shortcut), StrV(EnumText(f, raw)[1]))
                   ELSE IF f.type = "value" /\ f.max # f.min
                   THEN DictSet(decoded, Key(f.shortcut), DecV(Scaled(f, raw)))
                   ELSE DictSet(decoded, Key(f.shortcut), IntV(raw))
         IN  DecodeFields(d1, payload, Tail(fields))

(***************************************************************************)
(* RadioTelegram and teach-in detection.                                   *)
(***************************************************************************)
\* _process_radio_telegram: the fields taken from a data block of at least 6 bytes
Telegram(data, optional) ==
    [rorg |-> data[1],
     data |-> SubSeq(data, 2, Len(data) - 5),
     sender_id |-> SubSeq(data, Len(data) - 4, Len(data) - 1),
     status |-> data[Len(data)],
     dbm |-> IF Len(optional) >= 5 THEN -optional[5] ELSE 0]

sender_hex(tg) == Prefix0x \o HexBytes(tg.sender_id)
rorg_hex(tg) == Hex2(tg.rorg)

\* (b & 0x08) == 0
\* the LRN test with its sense inverted
LrnBitSet(b) == (b \div 8) % 2 = 1

LrnBitClear(b) == (b \div 8) % 2 = 0

\* a test of the first payload byte whatever the radio type
IsTeachInAnyRorg(tg) == tg.data # <<>> /\ LrnBitClear(tg.data[1])

\* _is_teach_in
IsTeachIn(tg) ==
    IF tg.rorg = 246 THEN FALSE
    ELSE IF tg.rorg = 213 THEN (tg.data # <<>> /\ LrnBitClear(tg.data[1]))
    ELSE IF tg.rorg = 165 THEN (Len(tg.data) >= 4 /\ LrnBitClear(tg.data[4]))
    ELSE FALSE

\* _handle_teach_in: the record given to the callback
TeachInRecord(tg) ==
    LET four == tg.rorg = 165 /\ Len(tg.data) >= 4
        func == IF four THEN (tg.data[1] \div 4) % 64 ELSE 0
        type == IF four THEN (tg.data[1] % 4) * 32 + ((tg.data[2] \div 8) % 32) ELSE 0
    IN  [sender_id |-> sender_hex(tg), rorg |-> rorg_hex(tg), func |-> Hex2(func),
         type |-> Hex2(type), dbm |-> tg.dbm]

\* _decode_telegram
Decode(tg, profile) ==
    LET decoded == << <<Key("sender_id"), StrV(sender_hex(tg))>>,
                      <<Key("rssi"), IntV(tg.dbm)>> >>
    IN  IF profile.fields = <<>>
        THEN DictSet(decoded, Key("raw"), StrV(HexBytes(tg.data)))
        ELSE DecodeFields(decoded, tg.data, profile.fields)

(***************************************************************************)
(* The mutable objects the coroutines work on, as one record, so that a    *)
(* coroutine step is a function from world to world.                       *)
(***************************************************************************)
World ==
    [tasks |-> tasks, last_states |-> last_states, file |-> file,
     published |-> published, dropped |-> dropped, ring |-> ring,
     unknown_devices |-> unknown_devices, clock |-> clock, teach_log |-> teach_log,
     added |-> added]

Apply(w) ==
    /\ tasks' = w.tasks
    /\ last_states' = w.last_states
    /\ file' = w.file
    /\ published' = w.published
    /\ dropped' = w.dropped
    /\ ring' = w.ring
    /\ unknown_devices' = w.unknown_devices
    /\ clock' = w.clock
    /\ teach_log' = w.teach_log
    /\ added' = w.added

\* datetime.now(): the clock value is taken and the clock moves on
Tick(w) == [w EXCEPT !.clock = @ + 1]

(***************************************************************************)
(* Telegram ring buffer.                                                   *)
(***************************************************************************)
RingMaxSize == 200       \* TelegramBuffer(max_size=200)
UnknownMaxLen == 50      \* deque(maxlen=50)

\* an append that discards the new item when the deque is full
DequeAppendDropNewest(q, x, maxlen) == IF Len(q) >= maxlen THEN q ELSE Append(q, x)

\* deque.append with maxlen (a deque of maxlen 0 stays empty)
DequeAppend(q, x, maxlen) ==
    IF maxlen = 0 THEN q
    ELSE IF Len(q) >= maxlen THEN Append(Tail(q), x) ELSE Append(q, x)

\* _add_unknown_device
AddUnknownDevice(w, sender, rorg, dbm) ==
    LET hits == {i \in 1..Len(w.unknown_devices) : w.unknown_devices[i].sender_id = sender}
    IN  IF hits # {}
        THEN LET i == CHOOSE i \in hits : \A j \in hits : i <= j
             IN  [w EXCEPT !.unknown_devices[i] =
                               [@ EXCEPT !.last_seen = w.clock, !.count = @ + 1, !.dbm = dbm],
                           !.clock = @ + 1]
        ELSE [w EXCEPT !.unknown_devices =
                           DequeAppend(@, [sender_id |-> sender, rorg |-> rorg,
                                           first_seen |-> w.clock, last_seen |-> w.clock + 1,
                                           count |-> 1, dbm |-> dbm], UnknownMaxLen),
                       !.clock = @ + 2]

\* TelegramBuffer.add; src is the coroutine that made the call
TelegramBufferAdd(w, sender, rorg, data, status, dbm, device_name, eep, decoded, is_teach_in, src) ==
    LET entry == [timestamp |-> w.clock, sender_id |-> sender, rorg |-> rorg, data |-> data,
                  status |-> status, dbm |-> dbm, device_name |-> device_name,
                  eep_id |-> eep, decoded |-> decoded, is_teach_in |-> is_teach_in,
                  src |-> src]
        w1 == [w EXCEPT !.ring = DequeAppend(@, entry, max_size), !.added = Append(@, entry),
                        !.clock = @ + 1]
    IN  IF device_name = None THEN AddUnknownDevice(w1, sender, rorg, dbm) ELSE w1

(***************************************************************************)
(* State cache file: json.dumps / json.loads over a token stream.          *)
(***************************************************************************)
NoState == [body |-> <<>>, last_update |-> None, restored |-> FALSE]
OpenBrace == [tok |-> "{", name |-> "", state |-> NoState]
CloseBrace == [tok |-> "}", name |-> "", state |-> NoState]
NameTok(n) == [tok |-> "name", name |-> n, state |-> NoState]
StateTok(s) == [tok |-> "state", name |-> "", state |-> s]

RECURSIVE DumpsEntries(_)
DumpsEntries(d) ==
    IF d = <<>> THEN <<>>
    ELSE <<NameTok(Head(d)[1]), StateTok(Head(d)[2])>> \o DumpsEntries(Tail(d))

\* json.dumps(self._last_states, indent=2)
Dumps(d) == <<OpenBrace>> \o DumpsEntries(d) \o <<CloseBrace>>

\* json.loads accepts the text
WellFormed(text) ==
    /\ Len(text) >= 2
    /\ Len(text) % 2 = 0
    /\ text[1] = OpenBrace
    /\ text[Len(text)] = CloseBrace
    /\ \A i \in 2..(Len(text) - 1) :
           text[i].tok = (IF i % 2 = 0 THEN "name" ELSE "state")

RECURSIVE LoadsEntries(_, _)
LoadsEntries(text, d) ==
    IF Len(text) < 2 THEN d
    ELSE LoadsEntries(SubSeq(text, 3, Len(text)), DictSet(d, text[1].name, text[2].state))

\* json.loads(content) of a well-formed text; a repeated key keeps its last value
Loads(text) == LoadsEntries(SubSeq(text, 2, Len(text) - 1), <<>>)

\* a write at offset 0 of a file that was not truncated afterwards
Overlay(old, new) ==
    IF Len(new) >= Len(old) THEN new ELSE new \o SubSeq(old, Len(new) + 1, Len(old))

(***************************************************************************)
(* MQTT handler.                                                           *)
(***************************************************************************)
Prefix == "enocean"
\* f"{self.prefix}/+/set"
CommandTopicPattern == <<prefix, "+", "set">>
\* "enocean/status"
StatusTopic == <<"enocean", "status">>
\* a payload that is text, sent as it is
TextPayload(text) == [text |-> text]
StateTopic(device_name) == <<prefix, device_name, "state">>

\* publish without the test of _connected at its head
PublishIgnoringConnection(w, topic, payload, retain, src) ==
    [w EXCEPT !.published =
                  Append(@, [topic |-> topic, payload |-> payload,
                             retain |-> retain, src |-> src])]

\* publish(topic, payload, retain); src is the coroutine that made the call
Publish(w, topic, payload, retain, src) ==
    IF ~connected
    THEN [w EXCEPT !.dropped = Append(@, [topic |-> topic, src |-> src])]
    ELSE [w EXCEPT !.published =
                       Append(@, [topic |-> topic, payload |-> payload,
                                  retain |-> retain, src |-> src])]

(***************************************************************************)
(* Mapping manager: the effective mapping and the discovery configs.       *)
(***************************************************************************)
MapEntry(component, name) == [component |-> component, name |-> name]

IdTemp == EepId(Chars("A", "5"), Chars("0", "2"), Chars("0", "5"))
IdTempHum == EepId(Chars("A", "5"), Chars("0", "4"), Chars("0", "1"))
IdTempHumLower == EepId(Chars("a", "5"), Chars("0", "4"), Chars("0", "1"))

\* DEFAULT_MAPPINGS, its first two profiles: A5-02-05 {TMP} and A5-04-01 {TMP, HUM}
DEFAULT_MAPPINGS ==
    << <<IdTemp, << <<"TMP", MapEntry("sensor", "Temperature")>> >> >>,
       <<IdTempHum, << <<"TMP", MapEntry("sensor", "Temperature")>>,
                       <<"HUM", MapEntry("sensor", "Humidity")>> >> >> >>

\* get_mapping(eep_id)
get_mapping(custom, id) ==
    IF DictHas(custom, str_upper(id)) THEN DictGet(custom, str_upper(id))
    ELSE IF DictHas(DEFAULT_MAPPINGS, str_upper(id)) THEN DictGet(DEFAULT_MAPPINGS, str_upper(id))
    ELSE <<>>

DiscoveryPrefix == "homeassistant"

\* str.lower() of the field names used here
lower(name) ==
    CASE name = "TMP" -> "tmp" [] name = "HUM" -> "hum" [] name = "BAT" -> "bat"
      [] name = "SW" -> "sw" [] OTHER -> name

\* get_ha_discovery_configs: the config built for one field of the mapping; the
\* topics are written with the literal "enocean"
DiscoveryConfig(device_name, field_name, field_config) ==
    [component |-> field_config.component,
     name |-> field_config.name,
     unique_id |-> <<"enocean", lower(device_name), lower(field_name)>>,
     state_topic |-> <<"enocean", device_name, "state">>,
     command_topic |->
         IF field_config.component \in {"switch", "light", "cover", "climate", "fan"}
         THEN Some(<<"enocean", device_name, "set">>) ELSE None,
     availability |-> <<"enocean", "status">>]

\* get_ha_discovery_configs(device_name, eep_id, device_info)
get_ha_discovery_configs(custom, device_name, id) ==
    LET mapping == get_mapping(custom, id)
    IN  [i \in 1..Len(mapping) |-> DiscoveryConfig(device_name, mapping[i][1], mapping[i][2])]

\* _publish_all_discoveries: the inner loop over the configs of one device
RECURSIVE PublishConfigs(_, _, _)
PublishConfigs(w, device_name, configs) ==
    IF configs = <<>> THEN w
    ELSE PublishConfigs(
             Publish(w, <<DiscoveryPrefix, Head(configs).component, Head(configs).unique_id,
                          "config">>,
                     [device_name |-> device_name, config |-> Head(configs)], TRUE, -2),
             device_name, Tail(configs))

\* _publish_all_discoveries: the loop over device_manager.devices
RECURSIVE PublishDeviceDiscoveries(_, _)
PublishDeviceDiscoveries(w, devs) ==
    IF devs = <<>> THEN w
    ELSE PublishDeviceDiscoveries(
             PublishConfigs(w, Head(devs).name,
                            get_ha_discovery_configs(custom_mappings, Head(devs).name,
                                                     eep_id(Head(devs)))),
             Tail(devs))

\* a coroutine that calls publish_state directly
NewPublishTask(device_name, body) ==
    [kind |-> "publish_state", pc |-> "start", data |-> <<>>, optional |-> <<>>,
     is_teach_in |-> FALSE, device_name |-> Some(device_name), eep_id |-> None,
     state |-> Some([body |-> body, last_update |-> None, restored |-> FALSE]),
     content |-> None, io_failed |-> FALSE, file_at_return |-> None]

\* _process_radio_telegram after _process_telegram: the ring buffer entry
FinishTelegram(w, c, device_name, eep, decoded) ==
    LET t == w.tasks[c]
        tg == Telegram(t.data, t.optional)
        w1 == TelegramBufferAdd(w, sender_hex(tg), rorg_hex(tg), HexBytes(tg.data),
                                tg.status, tg.dbm, device_name, eep, decoded,
                                t.is_teach_in, c)
    IN  [w1 EXCEPT !.tasks[c].pc = "done"]

\* publish_state after _save_states: the retained publish, then back in the caller
PublishStateTail(w, c) ==
    LET t == w.tasks[c]
        w1 == Publish(w, StateTopic(t.device_name[1]), t.state[1], TRUE, c)
        w2 == [w1 EXCEPT !.tasks[c].file_at_return = Some(w1.file)]
    IN  IF t.kind = "telegram"
        THEN FinishTelegram(w2, c, t.device_name, t.eep_id, t.state)
        ELSE [w2 EXCEPT !.tasks[c].pc = "done"]

\* publish_state up to its first suspension
PublishStateEnter(w, c, device_name, state) ==
    LET st == [state EXCEPT !.last_update = Some(w.clock)]
        w1 == [Tick(w) EXCEPT !.tasks[c].device_name = Some(device_name),
                              !.tasks[c].state = Some(st)]
    IN  IF cache_states
        THEN [w1 EXCEPT !.last_states = DictSet(@, device_name, st),
                        !.tasks[c].pc = "open_wait"]
        ELSE PublishStateTail(w1, c)

\* _process_telegram
ProcessTelegram(w, c) ==
    LET t == w.tasks[c]
        tg == Telegram(t.data, t.optional)
        device == GetDeviceByAddress(devices, sender_hex(tg))
    IN  IF device = None THEN FinishTelegram(w, c, None, None, None)
        ELSE LET profile == get_profile(eep_id(device[1]))
             IN  IF profile = None
                 THEN FinishTelegram(w, c, Some(device[1].name), Some(eep_id(device[1])), None)
                 ELSE PublishStateEnter([w EXCEPT !.tasks[c].eep_id = Some(eep_id(device[1]))],
                                        c, device[1].name,
                                        [body |-> Decode(tg, profile[1]),
                                         last_update |-> None, restored |-> FALSE])

\* _process_radio_telegram up to its first suspension
StartTelegram(w, c) ==
    LET t == w.tasks[c]
        tg == Telegram(t.data, t.optional)
        w1 == [w EXCEPT !.tasks[c].is_teach_in = IsTeachIn(tg)]
    IN  IF Len(t.data) < 6 THEN [w EXCEPT !.tasks[c].pc = "done"]
        ELSE IF IsTeachIn(tg) /\ teach_in_callback
        THEN [w1 EXCEPT !.teach_log = Append(@, TeachInRecord(tg)),
                        !.tasks[c].pc = "teach_wait"]
        ELSE ProcessTelegram(w1, c)

\* the outcomes of the next step of coroutine c: "ok", or "fail" where the awaited
\* operation can raise
StepChoices(ts, c) ==
    CASE ts[c].pc = "start" ->
             IF \A b \in 1..(c - 1) : ts[b].pc # "start" THEN {"ok"} ELSE {}
      [] ts[c].pc \in {"teach_wait", "open_wait", "close_wait"} -> {"ok", "fail"}
      [] ts[c].pc \in {"open_done", "open_failed", "write_wait", "write_done",
                       "close_done", "close_failed"} -> {"ok"}
      [] OTHER -> {}

\* one step of coroutine c: a run on the event loop up to the next suspension, or
\* the awaited operation completing in the thread pool
Step(w, c, ch) ==
    LET t == w.tasks[c]
    IN  CASE t.pc = "start" ->
                 IF t.kind = "telegram" THEN StartTelegram(w, c)
                 ELSE PublishStateEnter(w, c, t.device_name[1], t.state[1])
          [] t.pc = "teach_wait" ->
                 \* the callback returns, or raises out of _process_radio_telegram
                 IF ch = "ok" THEN ProcessTelegram(w, c)
                 ELSE [w EXCEPT !.tasks[c].pc = "failed"]
          [] t.pc = "open_wait" ->
                 \* aiofiles.open(..., 'w') in the pool: creates or truncates the file
                 IF ch = "ok" THEN [w EXCEPT !.file = Some(<<>>), !.tasks[c].pc = "open_done"]
                 ELSE [w EXCEPT !.tasks[c].pc = "open_failed", !.tasks[c].io_failed = TRUE]
          [] t.pc = "open_done" ->
                 \* json.dumps(self._last_states) is taken now; f.write goes to the pool
                 [w EXCEPT !.tasks[c].content = Some(Dumps(w.last_states)),
                           !.tasks[c].pc = "write_wait"]
          [] t.pc = "write_wait" ->
                 \* the text stays in the file object's buffer
                 [w EXCEPT !.tasks[c].pc = "write_done"]
          [] t.pc = "write_done" ->
                 \* leaving the with block: close goes to the pool
                 [w EXCEPT !.tasks[c].pc = "close_wait"]
          [] t.pc = "close_wait" ->
                 \* close flushes the buffered text at offset 0
                 IF ch = "ok"
                 THEN [w EXCEPT !.file = Some(Overlay(IF w.file = None THEN <<>> ELSE w.file[1],
                                                      t.content[1])),
                               !.tasks[c].pc = "close_done"]
                 ELSE [w EXCEPT !.tasks[c].pc = "close_failed", !.tasks[c].io_failed = TRUE]
          [] OTHER ->
                 \* _save_states returned, or logged the error it caught
                 PublishStateTail(w, c)

(***************************************************************************)
(* Inputs.                                                                 *)
(***************************************************************************)
\* an ESP3 frame as a transceiver puts it on the wire
Esp3Frame(packet_type, data, optional) ==
    LET header == <<Len(data) \div 256, Len(data) % 256, Len(optional), packet_type>>
    IN  <<SYNC_BYTE>> \o header \o <<crc8(header)>> \o data \o optional
            \o <<crc8(data \o optional)>>

\* the data block of an ERP1 radio telegram
RadioData(rorg, payload, sender, status) == <<rorg>> \o payload \o sender \o <<status>>

SenderThermo == <<5, 131, 79, 164>>       \* 0x05834FA4
SenderOther == <<18, 52, 86, 120>>        \* 0x12345678
Broadcast == <<255, 255, 255, 255>>
\* the same three as the integers send_telegram is given
IdThermo == U32(1411, 20388)
IdOther == U32(4660, 22136)
IdBroadcast == U32(65535, 65535)

\* RPS telegram (rorg F6) with one payload byte that is itself a sync byte
FrameRps == Esp3Frame(PACKET_TYPE_RADIO, RadioData(246, <<85>>, SenderOther, 48), <<>>)
\* a RESPONSE packet
FrameResponse == Esp3Frame(PACKET_TYPE_RESPONSE, <<0>>, <<>>)
\* a frame whose data CRC is wrong
FrameBadCrc == <<85, 0, 1, 0, 1, crc8(<<0, 1, 0, 1>>), 7, 0>>
\* a sync byte and a header with a correct header CRC that announces 10 + 7 bytes
HeaderOnly == <<85, 0, 10, 7, 1, 235>>
\* a sync byte and a header with a correct header CRC that announces 65535 bytes
HeaderHuge == <<85, 255, 255, 0, 1, crc8(<<255, 255, 0, 1>>)>>
\* a sync byte and a header whose header CRC is wrong
HeaderBadCrc == <<85, 0, 10, 7, 1, 0>>

Pieces == {FrameRps, FrameResponse, FrameBadCrc, HeaderOnly, HeaderHuge, HeaderBadCrc,
           <<85>>, <<0>>}

RECURSIVE Streams(_)
Streams(n) ==
    IF n = 0 THEN {<<>>}
    ELSE LET shorter == Streams(n - 1)
         IN  shorter \cup {s \o p : s \in shorter, p \in Pieces}

ChunkSizes(s) == {k \in 1..Len(s) : k <= MaxChunk \/ k = Len(s)}

Bytes == {0, 85}
RECURSIVE ByteSeqs(_)
ByteSeqs(n) ==
    IF n = 0 THEN {<<>>}
    ELSE LET shorter == ByteSeqs(n - 1)
         IN  shorter \cup {Append(s, b) : s \in shorter, b \in Bytes}

(***************************************************************************)
(* Devices, telegrams and states used as inputs.                           *)
(***************************************************************************)
AddrThermo == Prefix0x \o HexBytes(SenderThermo)                             \* "0x05834FA4"
AddrThermoBare == HexBytes(SenderThermo)                                     \* "05834FA4"
AddrThermoLower == <<"0", "x", "0", "5", "8", "3", "4", "f", "a", "4">>      \* "0x05834fa4"
AddrTank == <<"0", "x", "0", "0", "A", "B", "C", "D", "E", "F">>             \* "0x00ABCDEF"
Addresses == {AddrThermo, AddrThermoBare, AddrThermoLower, AddrTank}

NewDevice(name, address, rorg, func, type) ==
    [name |-> name, address |-> address, rorg |-> rorg, func |-> func, type |-> type]

DeviceThermo == NewDevice("thermo", AddrThermo, Chars("A", "5"), Chars("0", "2"), Chars("0", "5"))
DeviceTank == NewDevice("tank", AddrTank, Chars("A", "5"), Chars("0", "2"), Chars("0", "5"))
DeviceNames == {"thermo", "tank", "plug"}

\* registries of up to n devices with distinct names
RECURSIVE Registries(_)
Registries(n) ==
    IF n = 0 THEN {<<>>}
    ELSE LET shorter == Registries(n - 1)
         IN  shorter \cup
             UNION {{Append(r, NewDevice(nm, a, Chars("A", "5"), Chars("0", "2"), Chars("0", "5"))) :
                        nm \in DeviceNames \ {r[i].name : i \in 1..Len(r)}, a \in Addresses} :
                    r \in {s \in shorter : Len(s) = n - 1}}

RssiOptional == <<1, 255, 255, 255, 255, 64, 0>>

\* 4BS data telegram of the thermometer: 00 00 55 08
FrameThermo ==
    Esp3Frame(PACKET_TYPE_RADIO, RadioData(165, <<0, 0, 85, 8>>, SenderThermo, 0), RssiOptional)
\* 4BS teach-in telegram (LRN bit clear) of the thermometer: 08 28 00 80
FrameThermoTeach ==
    Esp3Frame(PACKET_TYPE_RADIO, RadioData(165, <<8, 40, 0, 128>>, SenderThermo, 0), RssiOptional)
\* 4BS teach-in telegram of a sender that is in no registry: 00 00 00 00
FrameOtherTeach ==
    Esp3Frame(PACKET_TYPE_RADIO, RadioData(165, <<0, 0, 0, 0>>, SenderOther, 0), RssiOptional)
\* 4BS telegram 00 00 00 00 of the thermometer
FrameThermoZero ==
    Esp3Frame(PACKET_TYPE_RADIO, RadioData(165, <<0, 0, 0, 0>>, SenderThermo, 0), RssiOptional)
\* radio packet whose data block is shorter than 6 bytes
FrameShort == Esp3Frame(PACKET_TYPE_RADIO, <<246, 48, 0, 0, 0>>, <<>>)

RadioFrames == {FrameThermo, FrameThermoTeach, FrameThermoZero, FrameOtherTeach, FrameRps,
                FrameShort}

Body(level) == << <<Key("LEVEL"), IntV(level)>> >>
Bodies == {Body(37), Body(42)}

\* a cache file left by an earlier run
TankState == [body |-> Body(37), last_update |-> Some(0), restored |-> FALSE]
BootFiles == {None, Some(Dumps(<< <<"tank", TankState>> >>)),
              Some(Dumps(<< <<"tank", TankState>>, <<"thermo", TankState>> >>))}

(***************************************************************************)
(* Initial values shared by the specifications.                            *)
(***************************************************************************)
FramerInit == rx = <<>> /\ buffer = <<>> /\ emitted = <<>>
SendInit == sh_connected = TRUE /\ sent = None /\ writes = <<>>
ResyncInit == junk = <<>> /\ rest = <<>> /\ outJB = <<>> /\ outB = <<>> /\ fed = FALSE
RegistryInit == devices = <<>> /\ lookup = None
BufferInit ==
    /\ teach_in_callback = FALSE /\ teach_log = <<>> /\ ring = <<>> /\ unknown_devices = <<>>
    /\ max_size = RingMaxSize /\ added = <<>>
ClientInit == subscriptions = <<>> /\ will = None /\ commands = <<>>
CallInit ==
    decode_call = None /\ custom_mappings = <<>> /\ mapping_call = None /\ mappings_file = None
StoreInit == ops = <<>> /\ devices_file = None /\ legacy_devices_file = None
ConfigInit == prefix = Prefix
ReaderInit ==
    /\ running = FALSE /\ reader_pc = "none" /\ read_age = 0 /\ transport = "up"
    /\ read_failed = FALSE /\ disc_pc = "idle" /\ join_wait = 0
ThreadInit == accesses = {} /\ publishing = None
LifeInit ==
    /\ readers = <<>> /\ restart_pc = "idle"
    /\ message_callbacks = <<>> /\ broker_subs = {}
UnitInit ==
    /\ teach_in_call = None
    /\ wire = <<>>
    /\ profiles = <<>>
    /\ custom_eep = <<>>
    /\ LifeInit
RestInit == StoreInit /\ ConfigInit /\ ReaderInit /\ ThreadInit /\ UnitInit
MqttInit ==
    /\ connected = FALSE /\ cache_states = TRUE /\ last_states = <<>>
    /\ file = None /\ published = <<>> /\ dropped = <<>>
BootInit ==
    main_pc = "serving" /\ restore_idx = 0 /\ boot_file = None /\ ncalls = 0 /\ nrestarts = 0
AppInit ==
    /\ RegistryInit /\ BufferInit /\ clock = 0 /\ MqttInit /\ BootInit /\ ClientInit
    /\ CallInit /\ RestInit
appVars == <<registryVars, bufferVars, clock, mqttVars, bootVars, clientVars, callVars, restVars>>

(***************************************************************************)
(* SpecFramer: the reader thread fed an arbitrary byte stream in arbitrary *)
(* chunks.                                                                 *)
(***************************************************************************)
InitFramer ==
    /\ rx \in Streams(MaxPieces)
    /\ buffer = <<>> /\ emitted = <<>>
    /\ tasks = <<>>
    /\ SendInit /\ ResyncInit /\ AppInit

\* _read_bytes returns the next k bytes of the transport
FramerRead(k) ==
    /\ k \in ChunkSizes(rx)
    /\ ReadLoopThread(SubSeq(rx, 1, k))
    /\ rx' = SubSeq(rx, k + 1, Len(rx))
    /\ UNCHANGED <<sendVars, resyncVars, appVars>>

NextFramer == \E k \in 1..(MaxPieces * 14) : FramerRead(k)

SpecFramer == InitFramer /\ [][NextFramer]_vars

(***************************************************************************)
(* SpecSend: send_telegram writes to a transport that loops back into the  *)
(* reader.                                                                 *)
(***************************************************************************)
InitSend ==
    /\ FramerInit /\ ResyncInit
    /\ tasks = <<>>
    /\ sh_connected \in BOOLEAN
    /\ sent = None /\ writes = <<>>
    /\ AppInit

SendTelegram(sender_id, rorg, data, destination) ==
    /\ sent = None
    /\ IF ~sh_connected
       THEN /\ sent' = Some([ok |-> FALSE, packet_data |-> <<>>, optional |-> <<>>,
                                 sender_id |-> sender_id, rorg |-> rorg, data |-> data,
                                 destination |-> destination])
            /\ UNCHANGED <<rx, writes>>
       ELSE LET p == SendPacket(to_bytes4(sender_id), rorg, data, to_bytes4(destination))
            IN  /\ sent' = Some([ok |-> TRUE, packet_data |-> p.packet_data,
                                 optional |-> p.optional, sender_id |-> sender_id,
                                 rorg |-> rorg, data |-> data,
                                 destination |-> destination])
                /\ writes' = Append(writes, p.packet)
                /\ rx' = rx \o p.packet
    /\ UNCHANGED <<buffer, emitted, tasks, sh_connected, resyncVars, appVars>>

SendRead(k) ==
    /\ k \in ChunkSizes(rx)
    /\ ReadLoopThread(SubSeq(rx, 1, k))
    /\ rx' = SubSeq(rx, k + 1, Len(rx))
    /\ UNCHANGED <<sendVars, resyncVars, appVars>>

NextSend ==
    \/ \E sender_id \in {IdThermo, IdOther, U32(21760, 21761)},
          rorg \in {165, 246, 85},
          data \in ByteSeqs(MaxPayload),
          destination \in {IdBroadcast, IdOther, U32(85, 85)} :
            SendTelegram(sender_id, rorg, data, destination)
    \/ \E k \in 1..(21 + MaxPayload) : SendRead(k)

SpecSend == InitSend /\ [][NextSend]_vars

(***************************************************************************)
(* SpecResync: the parser run on a stream with and without bytes in front. *)
(***************************************************************************)
Junks == {<<0>>, <<85>>, <<0, 85, 0>>, HeaderBadCrc, HeaderOnly, HeaderHuge, FrameBadCrc,
          SubSeq(FrameRps, 1, 9), <<85, 0, 10, 7, 1, 85>>, HeaderBadCrc \o <<85, 85>>}

InitResync ==
    /\ FramerInit /\ SendInit
    /\ tasks = <<>>
    /\ junk \in Junks
    /\ rest \in Streams(MaxPieces)
    /\ outJB = <<>> /\ outB = <<>> /\ fed = FALSE
    /\ AppInit

\* the whole of each stream is read and parsed, starting from an empty buffer
RunFramers ==
    /\ ~fed
    /\ outJB' = ParseLoop(junk \o rest, <<>>).out
    /\ outB' = ParseLoop(rest, <<>>).out
    /\ fed' = TRUE
    /\ UNCHANGED <<framerVars, tasks, sendVars, junk, rest, appVars>>

NextResync == RunFramers

SpecResync == InitResync /\ [][NextResync]_vars

(***************************************************************************)
(* Steps shared by Spec and SpecMqtt.                                      *)
(***************************************************************************)
\* coroutine c runs to its next suspension, or the operation it awaits completes
Advance(c) ==
    /\ main_pc # "stopped"
    /\ c \in 1..Len(tasks)
    /\ \E ch \in StepChoices(tasks, c) : Apply(Step(World, c, ch))
    /\ UNCHANGED <<framerVars, sendVars, resyncVars, registryVars, teach_in_callback,
                   max_size, connected, cache_states, bootVars, clientVars, callVars, restVars>>

\* _on_connect with rc = 0, on the MQTT client's thread
OnConnect ==
    /\ main_pc # "stopped"
    /\ ~connected
    /\ Len(subscriptions) < MaxConnects
    /\ connected' = TRUE
    /\ subscriptions' = Append(subscriptions, CommandTopicPattern)
    /\ UNCHANGED <<framerVars, tasks, sendVars, resyncVars, registryVars, bufferVars, clock,
                   cache_states, last_states, file, published, dropped, bootVars,
                   will, commands, callVars, restVars>>

\* _on_disconnect, on the MQTT client's thread
OnDisconnect ==
    /\ main_pc # "stopped"
    /\ connected
    /\ connected' = FALSE
    /\ UNCHANGED <<framerVars, tasks, sendVars, resyncVars, registryVars, bufferVars, clock,
                   cache_states, last_states, file, published, dropped, bootVars,
                   clientVars, callVars, restVars>>

(***************************************************************************)
(* SpecLookup: get_device_by_address on registries of stored addresses.    *)
(***************************************************************************)
InitLookup ==
    /\ FramerInit /\ SendInit /\ ResyncInit
    /\ tasks = <<>>
    /\ devices \in Registries(MaxDevices)
    /\ lookup = None
    /\ BufferInit /\ clock = 0 /\ MqttInit /\ BootInit /\ ClientInit /\ CallInit /\ RestInit

LookupCall(address) ==
    /\ lookup' = Some([address |-> address, result |-> GetDeviceByAddress(devices, address)])
    /\ UNCHANGED <<framerVars, tasks, sendVars, resyncVars, devices, bufferVars, clock,
                   mqttVars, bootVars,
                   clientVars, callVars, restVars>>

NextLookup == \E address \in Addresses \cup {sender_hex([sender_id |-> SenderOther])} :
                  LookupCall(address)

SpecLookup == InitLookup /\ [][NextLookup]_vars

(***************************************************************************)
(* Spec: the running bridge. The reader thread receives radio frames, the  *)
(* event loop runs one coroutine per telegram, the admin WebSocket sets    *)
(* and clears the teach-in callback, the broker connection comes and goes. *)
(***************************************************************************)
Init ==
    /\ FramerInit /\ SendInit /\ ResyncInit
    /\ tasks = <<>>
    /\ devices \in {<<>>, <<DeviceThermo>>, <<DeviceTank, DeviceThermo>>}
    /\ lookup = None
    /\ BufferInit /\ clock = 0 /\ ClientInit /\ CallInit /\ RestInit
    /\ connected \in BOOLEAN
    /\ cache_states \in BOOLEAN
    /\ last_states = <<>> /\ file = None /\ published = <<>> /\ dropped = <<>>
    /\ BootInit

\* the reader thread reads one whole frame and hands its telegram to the event loop
Receive(frame) ==
    /\ Len(emitted) < MaxTelegrams
    /\ ReadLoopThread(frame)
    /\ UNCHANGED <<rx, sendVars, resyncVars, appVars>>

\* set_teach_in_callback(on_teach_in) / set_teach_in_callback(None)
SetTeachInCallback(on) ==
    /\ teach_in_callback # on
    /\ teach_in_callback' = on
    /\ UNCHANGED <<framerVars, tasks, sendVars, resyncVars, registryVars, teach_log, ring,
                   unknown_devices, max_size, added, clock, mqttVars, bootVars,
                   clientVars, callVars, restVars>>

Next ==
    \/ \E frame \in RadioFrames : Receive(frame)
    \/ \E c \in 1..MaxTelegrams : Advance(c)
    \/ \E on \in BOOLEAN : SetTeachInCallback(on)
    \/ OnConnect
    \/ OnDisconnect

Spec == Init /\ [][Next]_vars

(***************************************************************************)
(* SpecMqtt: the MQTT handler from process start: connect, restore of the  *)
(* cached states, then publish_state calls whose coroutines interleave,    *)
(* and process restarts that keep the cache file.                          *)
(***************************************************************************)
InitMqtt ==
    /\ FramerInit /\ SendInit /\ ResyncInit
    /\ tasks = <<>>
    /\ RegistryInit /\ BufferInit /\ clock = 1 /\ ClientInit /\ CallInit /\ RestInit
    /\ connected = FALSE
    /\ cache_states \in BOOLEAN
    /\ last_states = <<>>
    /\ file \in BootFiles
    /\ published = <<>> /\ dropped = <<>>
    /\ main_pc = "connect" /\ restore_idx = 0 /\ boot_file = None
    /\ ncalls = 0 /\ nrestarts = 0

\* lifespan: connect() returns, connected or after its 5 second wait; then
\* load_persisted_states is called if CACHE_DEVICE_STATES
ConnectReturns ==
    /\ main_pc = "connect"
    /\ main_pc' = IF cache_states THEN "load" ELSE "discovery"
    /\ UNCHANGED <<framerVars, tasks, sendVars, resyncVars, registryVars, bufferVars, clock,
                   mqttVars, restore_idx, boot_file, ncalls, nrestarts,
                   clientVars, callVars, restVars>>

\* load_persisted_states up to the loop over the loaded entries
LoadPersistedStates ==
    /\ main_pc = "load"
    /\ boot_file' = file
    /\ IF file = None
       THEN main_pc' = "discovery" /\ UNCHANGED <<last_states, restore_idx>>
       ELSE IF ~WellFormed(file[1])
       THEN main_pc' = "discovery" /\ UNCHANGED <<last_states, restore_idx>>
       ELSE /\ last_states' = Loads(file[1])
            /\ restore_idx' = 1
            /\ main_pc' = "restore"
    /\ UNCHANGED <<framerVars, tasks, sendVars, resyncVars, registryVars, bufferVars, clock,
                   connected, cache_states, file, published, dropped, ncalls, nrestarts,
                   clientVars, callVars, restVars>>

\* load_persisted_states: one iteration of the loop, or its end
RestoreNext ==
    /\ main_pc = "restore"
    /\ IF restore_idx > Len(last_states)
       THEN /\ main_pc' = "discovery"
            /\ UNCHANGED <<last_states, published, dropped, restore_idx>>
       ELSE LET device_name == last_states[restore_idx][1]
                state == [last_states[restore_idx][2] EXCEPT !.restored = TRUE]
                w == Publish([World EXCEPT !.last_states[restore_idx] = <<device_name, state>>],
                             StateTopic(device_name), state, TRUE, 0)
            IN  /\ last_states' = w.last_states
                /\ published' = w.published
                /\ dropped' = w.dropped
                /\ restore_idx' = restore_idx + 1
                /\ main_pc' = main_pc
    /\ UNCHANGED <<framerVars, tasks, sendVars, resyncVars, registryVars, bufferVars, clock,
                   connected, cache_states, file, boot_file, ncalls, nrestarts,
                   clientVars, callVars, restVars>>

\* _publish_all_discoveries: the availability message, then the discovery
\* configurations of the registered devices
PublishAllDiscoveries ==
    /\ main_pc = "discovery"
    /\ LET w == PublishDeviceDiscoveries(
                    Publish(World, StatusTopic, TextPayload("online"), TRUE, -1), devices)
       IN  published' = w.published /\ dropped' = w.dropped
    /\ main_pc' = "serving"
    /\ UNCHANGED <<framerVars, tasks, sendVars, resyncVars, registryVars, bufferVars, clock,
                   connected, cache_states, last_states, file, restore_idx, boot_file,
                   ncalls, nrestarts, clientVars, callVars, restVars>>

\* lifespan after the yield: mqtt_handler.disconnect() stops the client's loop and
\* disconnects
Shutdown ==
    /\ main_pc = "serving"
    /\ main_pc' = "stopped"
    /\ connected' = FALSE
    /\ UNCHANGED <<framerVars, tasks, sendVars, resyncVars, registryVars, bufferVars, clock,
                   cache_states, last_states, file, published, dropped, restore_idx,
                   boot_file, ncalls, nrestarts, clientVars, callVars, restVars>>

\* a coroutine calling publish_state(device_name, {LEVEL: ...}) is handed to the event loop
PublishStateCall(device_name, body) ==
    /\ main_pc = "serving"
    /\ ncalls < MaxCalls
    /\ tasks' = Append(tasks, NewPublishTask(device_name, body))
    /\ ncalls' = ncalls + 1
    /\ UNCHANGED <<framerVars, sendVars, resyncVars, registryVars, bufferVars, clock,
                   mqttVars, main_pc, restore_idx, boot_file, nrestarts,
                   clientVars, callVars, restVars>>

\* the process stops at any point and is started again; the cache file stays
Restart ==
    /\ nrestarts < MaxRestarts
    /\ main_pc = "serving"
    /\ tasks # <<>>
    /\ nrestarts' = nrestarts + 1
    /\ tasks' = <<>>
    /\ last_states' = <<>> /\ published' = <<>> /\ dropped' = <<>>
    /\ connected' = FALSE
    /\ main_pc' = "connect" /\ restore_idx' = 0 /\ boot_file' = None
    /\ subscriptions' = <<>> /\ will' = None
    /\ UNCHANGED <<framerVars, sendVars, resyncVars, registryVars, bufferVars, clock,
                   cache_states, file, ncalls, commands, callVars, restVars>>

NextMqtt ==
    \/ OnConnect
    \/ OnDisconnect
    \/ ConnectReturns
    \/ LoadPersistedStates
    \/ RestoreNext
    \/ PublishAllDiscoveries
    \/ Shutdown
    \/ \E device_name \in {"tank", "thermo"}, body \in Bodies : PublishStateCall(device_name, body)
    \/ \E c \in 1..MaxCalls : Advance(c)
    \/ Restart

SpecMqtt == InitMqtt /\ [][NextMqtt]_vars


(***************************************************************************)
(* SpecCommand: messages arriving from the broker on the MQTT client's     *)
(* thread.                                                                 *)
(***************************************************************************)
\* topic.endswith("/set"), the topic being its list of segments
EndsWithSet(topic) == Len(topic) >= 2 /\ topic[Len(topic)] = "set"

\* _handle_command: the command is logged
HandleCommand(log, device_name, payload) ==
    Append(log, [device_name |-> device_name, payload |-> payload])

\* _on_message; no callback is ever registered with subscribe(), so the loop over
\* _message_callbacks has nothing to call
OnMessage(topic, payload) ==
    /\ connected
    /\ Len(commands) < MaxMessages
    /\ commands' = IF EndsWithSet(topic)
                   THEN HandleCommand(commands, topic[Len(topic) - 1], payload)
                   ELSE commands
    /\ UNCHANGED <<framerVars, tasks, sendVars, resyncVars, registryVars, bufferVars, clock,
                   mqttVars, bootVars, subscriptions, will, callVars, restVars>>

CommandTopics == {<<Prefix, "thermo", "set">>, <<Prefix, "tank", "set">>,
                  <<Prefix, "ghost", "set">>, <<Prefix, "thermo", "state">>}

InitCommand ==
    /\ FramerInit /\ SendInit /\ ResyncInit
    /\ tasks = <<>>
    /\ devices \in {<<>>, <<DeviceThermo>>, <<DeviceTank, DeviceThermo>>}
    /\ lookup = None
    /\ BufferInit /\ clock = 0 /\ MqttInit /\ BootInit /\ ClientInit /\ CallInit /\ RestInit

NextCommand ==
    \/ OnConnect
    \/ OnDisconnect
    \/ \E topic \in CommandTopics, payload \in {"ON", "OFF"} : OnMessage(topic, payload)

SpecCommand == InitCommand /\ [][NextCommand]_vars

(***************************************************************************)
(* SpecPublish: publish_state calls on a started handler whose connection  *)
(* comes and goes.                                                         *)
(***************************************************************************)
InitPublish ==
    /\ FramerInit /\ SendInit /\ ResyncInit
    /\ tasks = <<>>
    /\ RegistryInit /\ BufferInit /\ clock = 1 /\ ClientInit /\ CallInit /\ RestInit
    /\ connected = FALSE
    /\ cache_states \in BOOLEAN
    /\ last_states = <<>>
    /\ file = None
    /\ published = <<>> /\ dropped = <<>>
    /\ main_pc = "serving" /\ restore_idx = 0 /\ boot_file = None
    /\ ncalls = 0 /\ nrestarts = 0

NextPublish ==
    \/ OnConnect
    \/ OnDisconnect
    \/ PublishStateCall("tank", Body(42))
    \/ \E c \in 1..MaxCalls : Advance(c)

SpecPublish == InitPublish /\ [][NextPublish]_vars

(***************************************************************************)
(* SpecBurst: the reader thread hands telegrams to the event loop faster   *)
(* than the loop starts their coroutines.                                  *)
(***************************************************************************)
\* the capacity the specification gives the hand-over between the reader thread
\* and the event loop
PendingCapacity == 1024

\* the coroutines handed to the event loop and not started
Pending == {c \in 1..Len(tasks) : tasks[c].pc = "start"}

InitBurst ==
    /\ FramerInit /\ SendInit /\ ResyncInit
    /\ tasks = <<>>
    /\ devices = <<>>
    /\ lookup = None
    /\ BufferInit /\ clock = 0 /\ ClientInit /\ CallInit /\ RestInit
    /\ connected = TRUE
    /\ cache_states = FALSE
    /\ last_states = <<>> /\ file = None /\ published = <<>> /\ dropped = <<>>
    /\ BootInit

\* the reader thread reads one whole frame and hands its telegram to the event loop
ReceiveBurst(frame) ==
    /\ Len(emitted) < MaxBurst
    /\ ReadLoopThread(frame)
    /\ UNCHANGED <<rx, sendVars, resyncVars, appVars>>

NextBurst ==
    \/ ReceiveBurst(FrameThermo)
    \/ \E c \in 1..MaxTelegrams : Advance(c)

SpecBurst == InitBurst /\ [][NextBurst]_vars

(***************************************************************************)
(* SpecTeachIn: 4BS telegrams with the LRN bit clear arriving while the    *)
(* admin WebSocket sets and clears the teach-in callback.                  *)
(***************************************************************************)
TeachInFrames == {FrameThermoZero, FrameOtherTeach, FrameThermoTeach}

InitTeachIn ==
    /\ FramerInit /\ SendInit /\ ResyncInit
    /\ tasks = <<>>
    /\ devices \in {<<>>, <<DeviceThermo>>}
    /\ lookup = None
    /\ BufferInit /\ clock = 0 /\ ClientInit /\ CallInit /\ RestInit
    /\ connected = TRUE
    /\ cache_states \in BOOLEAN
    /\ last_states = <<>> /\ file = None /\ published = <<>> /\ dropped = <<>>
    /\ BootInit

NextTeachIn ==
    \/ \E frame \in TeachInFrames : Receive(frame)
    \/ \E c \in 1..MaxTelegrams : Advance(c)
    \/ \E on \in BOOLEAN : SetTeachInCallback(on)

SpecTeachIn == InitTeachIn /\ [][NextTeachIn]_vars

(***************************************************************************)
(* SpecDecode: _decode_telegram applied to a profile and a payload.        *)
(***************************************************************************)
\* field definitions as _parse_profile_fields and the custom profile files give
\* them; nothing checks that the shortcuts of a profile differ
DecodeFieldSet ==
    {[shortcut |-> sc, offset |-> off, size |-> sz, type |-> ty,
      values |-> IF ty = "enum" THEN << [value |-> Chars("1", "0"), description |-> "ten"] >>
                 ELSE <<>>,
      min |-> 0, max |-> 255, scale_min |-> 0, scale_max |-> 100] :
        sc \in {"A", "B"}, off \in {0, 4, 12}, sz \in {4, 8}, ty \in {"enum", "value"}}

RECURSIVE SeqsUpTo(_, _)
SeqsUpTo(S, n) ==
    IF n = 0 THEN {<<>>}
    ELSE LET shorter == SeqsUpTo(S, n - 1)
         IN  shorter \union {Append(q, x) : q \in {r \in shorter : Len(r) = n - 1}, x \in S}

DecodeProfiles == SeqsUpTo(DecodeFieldSet, MaxFields) \ {<<>>}
DecodePayloads == SeqsUpTo({90, 195}, MaxDecodeBytes)

InitDecode ==
    /\ FramerInit /\ SendInit /\ ResyncInit
    /\ tasks = <<>>
    /\ RegistryInit /\ BufferInit /\ clock = 0 /\ MqttInit /\ BootInit /\ ClientInit
    /\ custom_mappings = <<>> /\ mapping_call = None /\ mappings_file = None /\ RestInit
    /\ decode_call \in {[fields |-> fs, payload |-> p, decoded |-> None] :
                            fs \in DecodeProfiles, p \in DecodePayloads}

\* _decode_telegram(telegram, profile)
DecodeTelegram ==
    /\ decode_call.decoded = None
    /\ decode_call' =
           [decode_call EXCEPT !.decoded =
               Some(Decode([rorg |-> 165, data |-> decode_call.payload,
                            sender_id |-> SenderOther, status |-> 0, dbm |-> 0],
                           [fields |-> decode_call.fields]))]
    /\ UNCHANGED <<framerVars, tasks, sendVars, resyncVars, registryVars, bufferVars, clock,
                   mqttVars, bootVars, clientVars, custom_mappings, mapping_call,
                   mappings_file, restVars>>

NextDecode == DecodeTelegram

SpecDecode == InitDecode /\ [][NextDecode]_vars

(***************************************************************************)
(* SpecRing: a TelegramBuffer(max_size) and a sequence of add() calls.     *)
(***************************************************************************)
InitRing ==
    /\ FramerInit /\ SendInit /\ ResyncInit
    /\ tasks = <<>>
    /\ RegistryInit /\ clock = 0 /\ MqttInit /\ BootInit /\ ClientInit /\ CallInit /\ RestInit
    /\ teach_in_callback = FALSE /\ teach_log = <<>> /\ ring = <<>> /\ unknown_devices = <<>>
    /\ max_size \in 0..MaxRingSize /\ added = <<>>

\* telegram_buffer.add(sender_id, rorg, data, status, dbm, device_name, ...)
RingAdd(sender, device_name, is_teach_in) ==
    /\ Len(added) < MaxAdds
    /\ Apply(TelegramBufferAdd(World, sender, "A5", HexBytes(<<0, 0, 85, 8>>), 0, -64,
                               device_name, None, None, is_teach_in, 0))
    /\ UNCHANGED <<framerVars, sendVars, resyncVars, registryVars, teach_in_callback,
                   max_size, connected, cache_states, bootVars, clientVars, callVars, restVars>>

NextRing ==
    \E sender \in {Prefix0x \o HexBytes(SenderThermo), Prefix0x \o HexBytes(SenderOther)},
       device_name \in {None, Some("thermo")}, is_teach_in \in BOOLEAN :
        RingAdd(sender, device_name, is_teach_in)

SpecRing == InitRing /\ [][NextRing]_vars

(***************************************************************************)
(* SpecMapping: the mapping manager under set_mapping, delete_mapping and  *)
(* get_mapping calls.                                                      *)
(***************************************************************************)
\* mappings a user saves through the API
CustomMappingInputs ==
    { << <<"TMP", MapEntry("sensor", "Room")>> >>,
      << <<"HUM", MapEntry("sensor", "Damp")>>, <<"BAT", MapEntry("sensor", "Battery")>> >> }
MappingIds == {IdTemp, IdTempHum, IdTempHumLower}

\* del d[k]
DictDel(d, k) == SelectSeq(d, LAMBDA kv : kv[1] # k)

\* the YAML mapping yaml.dump writes for the custom mappings: keys and values
\* without the dict's order
YamlDump(custom) ==
    {<<custom[i][1], {<<custom[i][2][j][1], custom[i][2][j][2]>> : j \in 1..Len(custom[i][2])}>> :
        i \in 1..Len(custom)}

\* save_mappings: the file rewritten, or left as it was when it cannot be opened,
\* or left empty when the write fails after the open; the error is logged
SaveMappings(custom, outcome) ==
    CASE outcome = "ok" -> Some(YamlDump(custom))
      [] outcome = "open_failed" -> mappings_file
      [] OTHER -> Some({})

SaveOutcomes == {"ok", "open_failed", "write_failed"}

InitMapping ==
    /\ FramerInit /\ SendInit /\ ResyncInit
    /\ tasks = <<>>
    /\ AppInit

\* set_mapping(eep_id, mapping)
SetMapping(id, mapping, outcome) ==
    /\ custom_mappings' = DictSet(custom_mappings, str_upper(id), mapping)
    /\ mappings_file' = SaveMappings(custom_mappings', outcome)
    /\ UNCHANGED <<framerVars, tasks, sendVars, resyncVars, registryVars, bufferVars, clock,
                   mqttVars, bootVars, clientVars, decode_call, mapping_call, restVars>>

\* delete_mapping(eep_id)
DeleteMapping(id, outcome) ==
    /\ DictHas(custom_mappings, str_upper(id))
    /\ custom_mappings' = DictDel(custom_mappings, str_upper(id))
    /\ mappings_file' = SaveMappings(custom_mappings', outcome)
    /\ UNCHANGED <<framerVars, tasks, sendVars, resyncVars, registryVars, bufferVars, clock,
                   mqttVars, bootVars, clientVars, decode_call, mapping_call, restVars>>

\* a call of get_mapping(eep_id): the custom mappings at the call and what it returned
GetMapping(id) ==
    /\ mapping_call' = Some([eep_id |-> id, custom |-> custom_mappings,
                             result |-> get_mapping(custom_mappings, id)])
    /\ UNCHANGED <<framerVars, tasks, sendVars, resyncVars, registryVars, bufferVars, clock,
                   mqttVars, bootVars, clientVars, decode_call, custom_mappings,
                   mappings_file, restVars>>

NextMapping ==
    \/ \E id \in MappingIds, mapping \in CustomMappingInputs, outcome \in SaveOutcomes :
           SetMapping(id, mapping, outcome)
    \/ \E id \in MappingIds, outcome \in SaveOutcomes : DeleteMapping(id, outcome)
    \/ \E id \in MappingIds : GetMapping(id)

SpecMapping == InitMapping /\ [][NextMapping]_vars

(***************************************************************************)
(* Device store: devices.json and the legacy INI file.                     *)
(***************************************************************************)
NoDevice == NewDevice("", <<>>, <<>>, <<>>, <<>>)
JsonTok(tok, name, device) == [tok |-> tok, name |-> name, device |-> device]
JsonOpen == JsonTok("{", "", NoDevice)
JsonClose == JsonTok("}", "", NoDevice)

RECURSIVE JsonEntries(_)
JsonEntries(devs) ==
    IF devs = <<>> THEN <<>>
    ELSE <<JsonTok("name", Head(devs).name, NoDevice), JsonTok("device", "", Head(devs))>>
             \o JsonEntries(Tail(devs))

\* json.dumps({name: device.to_dict() ...}, indent=2)
JsonDevices(devs) == <<JsonOpen>> \o JsonEntries(devs) \o <<JsonClose>>

\* json.loads accepts the text
JsonWellFormed(text) ==
    /\ Len(text) >= 2
    /\ Len(text) % 2 = 0
    /\ text[1] = JsonOpen
    /\ text[Len(text)] = JsonClose
    /\ \A i \in 2..(Len(text) - 1) :
           text[i].tok = (IF i % 2 = 0 THEN "name" ELSE "device")

\* self.devices[name] = device
RegistrySet(devs, device) ==
    IF \E i \in 1..Len(devs) : devs[i].name = device.name
    THEN [devs EXCEPT ![CHOOSE i \in 1..Len(devs) : devs[i].name = device.name] = device]
    ELSE Append(devs, device)

RECURSIVE JsonLoadEntries(_, _)
JsonLoadEntries(text, devs) ==
    IF Len(text) < 2 THEN devs
    ELSE JsonLoadEntries(SubSeq(text, 3, Len(text)),
                         RegistrySet(devs, [text[2].device EXCEPT !.name = text[1].name]))

\* _load_json_devices: Device.from_dict(name, device_data) for every item
JsonLoadDevices(text) ==
    IF JsonWellFormed(text) THEN Some(JsonLoadEntries(SubSeq(text, 2, Len(text) - 1), <<>>))
    ELSE None

IniLine(key, name, val) == [key |-> key, name |-> name, val |-> val]

RECURSIVE IniLines(_)
\* _save_ini_devices: the lines joined by newlines
IniLines(devs) ==
    IF devs = <<>> THEN <<>>
    ELSE LET d == Head(devs)
         IN  <<IniLine("section", d.name, <<>>),
               IniLine("address", "", d.address),
               IniLine("rorg", "", Prefix0x \o d.rorg),
               IniLine("func", "", Prefix0x \o d.func),
               IniLine("type", "", Prefix0x \o d.type),
               IniLine("", "", <<>>)>> \o IniLines(Tail(devs))

\* _format_hex
format_hex(value) ==
    IF value = <<>> THEN <<>>
    ELSE IF startswith(value, Prefix0x) THEN str_upper(SubSeq(value, 3, Len(value)))
    ELSE str_upper(value)

RECURSIVE IniParse(_, _, _)
\* configparser.read: sections in file order with their options; a repeated
\* section, a repeated option or an option before the first section is an error
IniParse(lines, sections, ok) ==
    IF ~ok \/ lines = <<>> THEN [sections |-> sections, ok |-> ok]
    ELSE LET l == Head(lines)
             n == Len(sections)
         IN  IF l.key = "" THEN IniParse(Tail(lines), sections, ok)
             ELSE IF l.key = "section"
             THEN IniParse(Tail(lines),
                           Append(sections, [name |-> l.name, options |-> <<>>]),
                           \A i \in 1..n : sections[i].name # l.name)
             ELSE IF n = 0 THEN IniParse(Tail(lines), sections, FALSE)
             ELSE IniParse(Tail(lines),
                           [sections EXCEPT ![n].options = DictSet(@, l.key, l.val)],
                           ~DictHas(sections[n].options, l.key))

IniOption(section, key) ==
    IF DictHas(section.options, key) THEN DictGet(section.options, key) ELSE <<>>

RECURSIVE IniSectionsToDevices(_)
IniSectionsToDevices(sections) ==
    IF sections = <<>> THEN <<>>
    ELSE LET sec == Head(sections)
             rest_devices == IniSectionsToDevices(Tail(sections))
         IN  IF sec.name = "CONFIG" THEN rest_devices
             ELSE <<NewDevice(sec.name, IniOption(sec, "address"),
                              format_hex(IniOption(sec, "rorg")),
                              format_hex(IniOption(sec, "func")),
                              format_hex(IniOption(sec, "type")))>> \o rest_devices

\* _load_ini_devices
IniLoadDevices(lines) ==
    LET r == IniParse(lines, <<>>, TRUE)
    IN  IF r.ok THEN Some(IniSectionsToDevices(r.sections)) ELSE None

\* name in self.devices
never_in_devices(devs, name) == FALSE
in_devices(devs, name) == \E i \in 1..Len(devs) : devs[i].name = name

\* del self.devices[name]
RegistryDel(devs, name) == SelectSeq(devs, LAMBDA d : d.name # name)

\* a coroutine running add_device, update_device or delete_device
NewOp(kind, name, pc, result) ==
    [kind |-> kind, name |-> name, pc |-> pc, result |-> result, data |-> <<>>,
     lines |-> <<>>, io_failed |-> FALSE, at_return |-> None]

\* what the caller finds when the call returns
AtReturn(devs, json, ini) == Some([devices |-> devs, devices_file |-> json,
                                   legacy_devices_file |-> ini])

\* the call returns False before anything is changed
Rejected(kind, name) ==
    /\ ops' = Append(ops, [NewOp(kind, name, "done", "false") EXCEPT
                              !.at_return = AtReturn(devices, devices_file,
                                                     legacy_devices_file)])
    /\ UNCHANGED <<devices, devices_file, legacy_devices_file>>

\* the registry is changed and save_devices runs to its first suspension, the
\* JSON data taken from the registry
Accepted(kind, name, devs) ==
    /\ devices' = devs
    /\ ops' = Append(ops, [NewOp(kind, name, "json_open_wait", "none") EXCEPT
                              !.data = JsonDevices(devs)])
    /\ UNCHANGED <<devices_file, legacy_devices_file>>

otherVars == <<framerVars, tasks, sendVars, resyncVars, lookup, bufferVars, clock, mqttVars,
               bootVars, clientVars, callVars, configVars, readerVars, threadVars, unitVars>>

\* add_device(device) up to its first suspension
AddDevice(device) ==
    /\ Len(ops) < MaxOps
    /\ IF in_devices(devices, device.name)
       THEN Rejected("add", device.name)
       ELSE Accepted("add", device.name, RegistrySet(devices, device))
    /\ UNCHANGED otherVars

\* update_device(name, {"address": address}) up to its first suspension
UpdateDevice(name, address) ==
    /\ Len(ops) < MaxOps
    /\ IF ~in_devices(devices, name)
       THEN Rejected("update", name)
       ELSE Accepted("update", name,
                     [i \in 1..Len(devices) |->
                         IF devices[i].name = name
                         THEN [devices[i] EXCEPT !.address = address] ELSE devices[i]])
    /\ UNCHANGED otherVars

\* delete_device(name) up to its first suspension
DeleteDevice(name) ==
    /\ Len(ops) < MaxOps
    /\ IF ~in_devices(devices, name)
       THEN Rejected("delete", name)
       ELSE Accepted("delete", name, RegistryDel(devices, name))
    /\ UNCHANGED otherVars

FileText(f) == IF f = None THEN <<>> ELSE f[1]

\* the operation coroutine c awaits completes in the thread pool, or fails, and
\* the coroutine runs to its next suspension
OpStep(c, ch) ==
    /\ c \in 1..Len(ops)
    /\ LET op == ops[c]
       IN  CASE op.pc = "json_open_wait" ->
                    \* aiofiles.open(devices_file, 'w'); an error leaves save_devices
                    IF ch = "ok"
                    THEN /\ devices_file' = Some(<<>>)
                         /\ ops' = [ops EXCEPT ![c].pc = "json_close_wait"]
                         /\ UNCHANGED legacy_devices_file
                    ELSE /\ ops' = [ops EXCEPT ![c].pc = "done", ![c].result = "raised",
                                               ![c].io_failed = TRUE]
                         /\ UNCHANGED <<devices_file, legacy_devices_file>>
             [] op.pc = "json_close_wait" ->
                    \* the text is flushed at offset 0; then _save_ini_devices builds
                    \* its lines from the registry and opens the legacy file
                    IF ch = "ok"
                    THEN /\ devices_file' = Some(Overlay(FileText(devices_file), op.data))
                         /\ ops' = [ops EXCEPT ![c].pc = "ini_open_wait",
                                               ![c].lines = IniLines(devices)]
                         /\ UNCHANGED legacy_devices_file
                    ELSE /\ ops' = [ops EXCEPT ![c].pc = "done", ![c].result = "raised",
                                               ![c].io_failed = TRUE]
                         /\ UNCHANGED <<devices_file, legacy_devices_file>>
             [] op.pc = "ini_open_wait" ->
                    \* an error is logged by _save_ini_devices and the call returns True
                    IF ch = "ok"
                    THEN /\ legacy_devices_file' = Some(<<>>)
                         /\ ops' = [ops EXCEPT ![c].pc = "ini_close_wait"]
                         /\ UNCHANGED devices_file
                    ELSE /\ ops' = [ops EXCEPT ![c].pc = "done", ![c].result = "true",
                                               ![c].io_failed = TRUE,
                                               ![c].at_return =
                                                   AtReturn(devices, devices_file,
                                                            legacy_devices_file)]
                         /\ UNCHANGED <<devices_file, legacy_devices_file>>
             [] op.pc = "ini_close_wait" ->
                    /\ legacy_devices_file' =
                           IF ch = "ok"
                           THEN Some(Overlay(FileText(legacy_devices_file), op.lines))
                           ELSE legacy_devices_file
                    /\ ops' = [ops EXCEPT ![c].pc = "done", ![c].result = "true",
                                          ![c].io_failed = (ch # "ok"),
                                          ![c].at_return =
                                              AtReturn(devices, devices_file,
                                                       legacy_devices_file')]
                    /\ UNCHANGED devices_file
             [] OTHER -> FALSE
    /\ UNCHANGED <<devices, otherVars>>

\* a registry and the two files a run that saved it has left
StoreStates ==
    {[devices |-> devs, devices_file |-> IF devs = <<>> THEN None ELSE Some(JsonDevices(devs)),
      legacy_devices_file |-> IF devs = <<>> THEN None ELSE Some(IniLines(devs))] :
        devs \in {<<>>, <<DeviceThermo>>}}

InitDevices ==
    /\ FramerInit /\ SendInit /\ ResyncInit
    /\ tasks = <<>>
    /\ lookup = None
    /\ BufferInit /\ clock = 0 /\ MqttInit /\ BootInit /\ ClientInit /\ CallInit
    /\ ConfigInit /\ ReaderInit /\ ThreadInit /\ UnitInit
    /\ ops = <<>>
    /\ \E st \in StoreStates :
           /\ devices = st.devices
           /\ devices_file = st.devices_file
           /\ legacy_devices_file = st.legacy_devices_file

NextDevices ==
    \/ \E device \in {DeviceThermo, DeviceTank} : AddDevice(device)
    \/ \E name \in {"thermo", "tank"} : UpdateDevice(name, AddrThermoLower)
    \/ \E name \in {"thermo", "tank"} : DeleteDevice(name)
    \/ \E c \in 1..MaxOps, ch \in {"ok", "fail"} : OpStep(c, ch)

SpecDevices == InitDevices /\ [][NextDevices]_vars

(***************************************************************************)
(* SpecDiscovery: start-up with a configured prefix and registered         *)
(* devices: the discovery publishes, then publish_state calls.             *)
(***************************************************************************)
Prefixes == {Prefix, "home"}
SwitchMapping == << <<IdTemp, << <<"SW", MapEntry("switch", "Relay")>> >> >> >>

InitDiscovery ==
    /\ FramerInit /\ SendInit /\ ResyncInit
    /\ tasks = <<>>
    /\ devices \in {<<DeviceThermo>>, <<DeviceThermo, DeviceTank>>}
    /\ lookup = None
    /\ BufferInit /\ clock = 1 /\ ClientInit
    /\ decode_call = None /\ mapping_call = None
    /\ custom_mappings \in {<<>>, SwitchMapping}
    /\ mappings_file = IF custom_mappings = <<>> THEN None ELSE Some(YamlDump(custom_mappings))
    /\ ops = <<>>
    /\ devices_file = Some(JsonDevices(devices))
    /\ legacy_devices_file = Some(IniLines(devices))
    /\ prefix \in Prefixes
    /\ ReaderInit /\ ThreadInit /\ UnitInit
    /\ connected = FALSE /\ cache_states = FALSE /\ last_states = <<>> /\ file = None
    /\ published = <<>> /\ dropped = <<>>
    /\ main_pc = "connect" /\ restore_idx = 0 /\ boot_file = None
    /\ ncalls = 0 /\ nrestarts = 0

NextDiscovery ==
    \/ OnConnect
    \/ OnDisconnect
    \/ ConnectReturns
    \/ PublishAllDiscoveries
    \/ \E i \in 1..Len(devices) : PublishStateCall(devices[i].name, Body(42))
    \/ \E c \in 1..MaxCalls : Advance(c)

SpecDiscovery == InitDiscovery /\ [][NextDiscovery]_vars

(***************************************************************************)
(* SpecReader: the reader thread from connect() to disconnect(), with a    *)
(* transport that can fail. Time advances in seconds; the thread's         *)
(* computations take no time, its blocking read up to ReadTimeout.         *)
(***************************************************************************)
ReadTimeout == 1      \* serial timeout=1.0, socket settimeout(1.0)
JoinTimeout == 3      \* self._read_thread.join(timeout=3.0)

\* a `while` that never tests the flag
while_true(flag) == TRUE
\* while self._running
while_running(flag) == flag

\* _read_bytes: the bytes read; every exception of the port or socket is caught
\* and b"" returned, recv on a connection the peer closed returns b""
read_bytes(tr, data) ==
    [raised |-> FALSE, data |-> IF tr \in {"up", "closing"} THEN data ELSE <<>>]

InitReader ==
    /\ rx = FrameRps \o FrameRps
    /\ buffer = <<>> /\ emitted = <<>>
    /\ tasks = <<>>
    /\ sh_connected = FALSE /\ sent = None /\ writes = <<>>
    /\ ResyncInit /\ AppInit

\* connect(): the port is open, the flags are set and the thread is started
Connect ==
    /\ reader_pc = "none" /\ disc_pc = "idle"
    /\ sh_connected' = TRUE
    /\ running' = TRUE
    /\ reader_pc' = "test"
    /\ UNCHANGED <<framerVars, tasks, sent, writes, resyncVars, registryVars, bufferVars, clock,
                   mqttVars, bootVars, clientVars, callVars, storeVars, configVars, threadVars, unitVars,
                   read_age, transport, read_failed, disc_pc, join_wait>>

\* the reader thread at `while self._running`
ReaderTest ==
    /\ reader_pc = "test"
    /\ reader_pc' = IF while_running(running) THEN "read" ELSE "stopped"
    /\ read_age' = 0
    /\ UNCHANGED <<framerVars, tasks, sendVars, resyncVars, registryVars, bufferVars, clock,
                   mqttVars, bootVars, clientVars, callVars, storeVars, configVars, threadVars, unitVars,
                   running, transport, read_failed, disc_pc, join_wait>>

\* the blocking read returns k bytes (none when it timed out or the transport has
\* failed) and the rest of the loop body runs
ReaderRead(k) ==
    /\ reader_pc = "read"
    /\ CASE transport = "up" -> \/ k > 0 /\ k <= Len(rx)
                                \/ k = 0 /\ read_age = ReadTimeout
         [] transport = "closing" -> k <= Len(rx)
         [] OTHER -> k = 0
    /\ LET r == read_bytes(transport, SubSeq(rx, 1, k))
       IN  IF r.raised
           THEN \* except serial.SerialException: self._connected = False; break
                /\ sh_connected' = FALSE
                /\ reader_pc' = "stopped"
                /\ UNCHANGED <<framerVars, tasks>>
           ELSE /\ ReadLoopThread(r.data)
                /\ rx' = SubSeq(rx, k + 1, Len(rx))
                /\ reader_pc' = "test"
                /\ UNCHANGED sh_connected
    /\ read_failed' = (read_failed \/ transport \in {"error", "closed"})
    /\ transport' = IF transport = "closing" THEN "gone" ELSE transport
    /\ UNCHANGED <<sent, writes, resyncVars, registryVars, bufferVars, clock,
                   mqttVars, bootVars, clientVars, callVars, storeVars, configVars, threadVars, unitVars,
                   running, read_age, disc_pc, join_wait>>

\* the port or socket starts to fail with an I/O error, or the TCP peer closes
TransportFails(how) ==
    /\ transport = "up" /\ reader_pc # "none"
    /\ transport' = how
    /\ UNCHANGED <<framerVars, tasks, sendVars, resyncVars, registryVars, bufferVars, clock,
                   mqttVars, bootVars, clientVars, callVars, storeVars, configVars, threadVars, unitVars,
                   running, reader_pc, read_age, read_failed, disc_pc, join_wait>>

\* disconnect() up to the join
Disconnect ==
    /\ disc_pc = "idle" /\ reader_pc # "none"
    /\ running' = FALSE
    /\ disc_pc' = "join"
    /\ join_wait' = 0
    /\ UNCHANGED <<framerVars, tasks, sendVars, resyncVars, registryVars, bufferVars, clock,
                   mqttVars, bootVars, clientVars, callVars, storeVars, configVars, threadVars, unitVars,
                   reader_pc, read_age, transport, read_failed>>

\* disconnect(): join returns, because the thread has ended or the timeout has
\* passed; the port or socket is closed and dropped, _connected is cleared. A read
\* that is blocked on the port or socket at that moment may still return bytes.
JoinReturns ==
    /\ disc_pc = "join"
    /\ reader_pc = "stopped" \/ join_wait = JoinTimeout
    /\ transport' = IF reader_pc = "read" THEN "closing" ELSE "gone"
    /\ sh_connected' = FALSE
    /\ disc_pc' = "returned"
    /\ UNCHANGED <<framerVars, tasks, sent, writes, resyncVars, registryVars, bufferVars, clock,
                   mqttVars, bootVars, clientVars, callVars, storeVars, configVars, threadVars, unitVars,
                   running, reader_pc, read_age, read_failed, join_wait>>

\* one second passes: only while the reader thread is blocked in a read that has
\* not reached its timeout, or has ended, and a join has not reached its timeout
Tick1s ==
    /\ reader_pc \in {"read", "stopped"}
    /\ reader_pc = "read" => read_age < ReadTimeout
    /\ disc_pc = "join" => join_wait < JoinTimeout /\ reader_pc # "stopped"
    /\ read_age' = IF reader_pc = "read" THEN read_age + 1 ELSE read_age
    /\ join_wait' = IF disc_pc = "join" THEN join_wait + 1 ELSE join_wait
    /\ UNCHANGED <<framerVars, tasks, sendVars, resyncVars, registryVars, bufferVars, clock,
                   mqttVars, bootVars, clientVars, callVars, storeVars, configVars, threadVars, unitVars,
                   running, reader_pc, transport, read_failed, disc_pc>>

ReaderStep == ReaderTest \/ \E k \in {0, Len(FrameRps)} : ReaderRead(k)

NextReader ==
    \/ Connect
    \/ ReaderStep
    \/ \E how \in {"error", "closed"} : TransportFails(how)
    \/ Disconnect
    \/ JoinReturns
    \/ Tick1s

SpecReader == InitReader /\ [][NextReader]_vars

\* the operating system runs the reader thread when it can run, the event loop
\* thread returns from join when it can, and time passes
FairSpecReader ==
    /\ SpecReader
    /\ WF_vars(ReaderStep) /\ WF_vars(JoinReturns) /\ WF_vars(Tick1s)

(***************************************************************************)
(* SpecSkip: the framer on streams in which a valid frame follows, or lies *)
(* inside, a false frame.                                                  *)
(***************************************************************************)
\* a header with a correct CRC that announces 15 data bytes, the 15 bytes (a whole
\* valid frame and one more byte) and a wrong data CRC
FrameNested ==
    LET header == <<0, 15, 0, PACKET_TYPE_RADIO>>
        data == FrameRps \o <<0>>
    IN  <<SYNC_BYTE>> \o header \o <<crc8(header)>> \o data \o <<(crc8(data) + 1) % 256>>

\* what precedes the valid frame: sync bytes, false headers, false frames
SkipLeads ==
    {<<SYNC_BYTE>>, <<SYNC_BYTE, SYNC_BYTE>>, HeaderBadCrc, FrameBadCrc,
     <<SYNC_BYTE>> \o FrameBadCrc, HeaderBadCrc \o FrameBadCrc}

SkipStreams ==
    {lead \o FrameRps \o last : lead \in SkipLeads, last \in {<<>>, <<SYNC_BYTE>>}}
        \cup {FrameNested, <<SYNC_BYTE>> \o FrameNested}

InitSkip ==
    /\ rx \in SkipStreams
    /\ buffer = <<>> /\ emitted = <<>>
    /\ tasks = <<>>
    /\ SendInit /\ ResyncInit /\ AppInit

SpecSkip == InitSkip /\ [][NextFramer]_vars

(***************************************************************************)
(* SpecThreads: the MQTT client's callbacks on the client's network thread *)
(* and publish() on the event loop thread, step by step, with every access *)
(* to the handler's fields recorded.                                       *)
(***************************************************************************)
Access(thread, field, op) == [thread |-> thread, field |-> field, op |-> op]

InitThreads ==
    /\ FramerInit /\ SendInit /\ ResyncInit
    /\ tasks = <<>>
    /\ RegistryInit /\ BufferInit /\ clock = 0 /\ MqttInit /\ ClientInit /\ CallInit /\ RestInit
    /\ main_pc = "serving" /\ restore_idx = 0 /\ boot_file = None
    /\ ncalls = 0 /\ nrestarts = 0

\* _on_connect with rc = 0, called by the client's network thread
ClientOnConnect ==
    /\ ~connected
    /\ Len(subscriptions) < MaxConnects
    /\ connected' = TRUE
    /\ subscriptions' = Append(subscriptions, CommandTopicPattern)
    /\ accesses' = accesses \cup {Access("network", "_connected", "write")}
    /\ UNCHANGED <<framerVars, tasks, sendVars, resyncVars, registryVars, bufferVars, clock,
                   cache_states, last_states, file, published, dropped, bootVars,
                   will, commands, callVars, storeVars, configVars, unitVars, readerVars, publishing>>

\* _on_disconnect, called by the client's network thread
ClientOnDisconnect ==
    /\ connected
    /\ connected' = FALSE
    /\ accesses' = accesses \cup {Access("network", "_connected", "write")}
    /\ UNCHANGED <<framerVars, tasks, sendVars, resyncVars, registryVars, bufferVars, clock,
                   cache_states, last_states, file, published, dropped, bootVars,
                   clientVars, callVars, storeVars, configVars, unitVars, readerVars, publishing>>

\* _on_message, called by the client's network thread: the command is handled
\* and _message_callbacks is iterated there
ClientOnMessage(topic, payload) ==
    /\ connected
    /\ Len(commands) < MaxMessages
    /\ commands' = IF EndsWithSet(topic)
                   THEN HandleCommand(commands, topic[Len(topic) - 1], payload)
                   ELSE commands
    /\ accesses' = accesses \cup {Access("network", "_message_callbacks", "read")}
    /\ UNCHANGED <<framerVars, tasks, sendVars, resyncVars, registryVars, bufferVars, clock,
                   mqttVars, bootVars, subscriptions, will, callVars, storeVars, configVars, unitVars,
                   readerVars, publishing>>

\* publish() on the event loop thread up to its test of _connected
PublishTest(topic, payload) ==
    /\ publishing = None
    /\ ncalls < MaxCalls
    /\ ncalls' = ncalls + 1
    /\ accesses' = accesses \cup {Access("loop", "_connected", "read")}
    /\ IF ~connected
       THEN /\ dropped' = Append(dropped, [topic |-> topic, src |-> ncalls'])
            /\ UNCHANGED publishing
       ELSE /\ publishing' = Some([topic |-> topic, payload |-> payload, src |-> ncalls'])
            /\ UNCHANGED dropped
    /\ UNCHANGED <<framerVars, tasks, sendVars, resyncVars, registryVars, bufferVars, clock,
                   connected, cache_states, last_states, file, published,
                   main_pc, restore_idx, boot_file, nrestarts,
                   clientVars, callVars, storeVars, configVars, unitVars, readerVars>>

\* publish() after its test: json.dumps and self._client.publish
PublishSend ==
    /\ publishing # None
    /\ published' = Append(published, [topic |-> publishing[1].topic,
                                       payload |-> publishing[1].payload,
                                       retain |-> FALSE, src |-> publishing[1].src])
    /\ publishing' = None
    /\ UNCHANGED <<framerVars, tasks, sendVars, resyncVars, registryVars, bufferVars, clock,
                   connected, cache_states, last_states, file, dropped, bootVars,
                   clientVars, callVars, storeVars, configVars, unitVars, readerVars, accesses>>

NextThreads ==
    \/ ClientOnConnect
    \/ ClientOnDisconnect
    \/ \E topic \in {<<Prefix, "thermo", "set">>} : ClientOnMessage(topic, "ON")
    \/ PublishTest(StatusTopic, TextPayload("online"))
    \/ PublishSend

SpecThreads == InitThreads /\ [][NextThreads]_vars

(***************************************************************************)
(* SpecIsTeachIn: _is_teach_in applied to telegrams of every kind.         *)
(***************************************************************************)
MaxTeachBytes == 4

\* 1BS, 4BS, RPS, VLD and three radio types outside the four
TeachRorgs == {213, 165, 246, 210, 164, 166, 0}
\* payload bytes with bit 3 clear and set, alone and among the other bits
TeachBytes == {0, 8, 247, 255}

InitIsTeachIn ==
    /\ FramerInit /\ SendInit /\ ResyncInit
    /\ tasks = <<>>
    /\ RegistryInit /\ BufferInit /\ clock = 0 /\ MqttInit /\ BootInit /\ ClientInit
    /\ CallInit /\ StoreInit /\ ConfigInit /\ ReaderInit /\ ThreadInit
    /\ wire = <<>> /\ profiles = <<>> /\ custom_eep = <<>> /\ LifeInit
    /\ teach_in_call \in {[rorg |-> r, data |-> d, result |-> None] :
                             r \in TeachRorgs, d \in SeqsUpTo(TeachBytes, MaxTeachBytes)}

\* _is_teach_in(telegram)
IsTeachInCall ==
    /\ teach_in_call.result = None
    /\ teach_in_call' =
           [teach_in_call EXCEPT !.result =
               Some(IsTeachIn([rorg |-> teach_in_call.rorg, data |-> teach_in_call.data,
                               sender_id |-> SenderOther, status |-> 0, dbm |-> 0]))]
    /\ UNCHANGED <<framerVars, tasks, sendVars, resyncVars, registryVars, bufferVars, clock,
                   mqttVars, bootVars, clientVars, callVars, storeVars, configVars,
                   readerVars, threadVars, wire, profiles, custom_eep, lifeVars>>

NextIsTeachIn == IsTeachInCall

SpecIsTeachIn == InitIsTeachIn /\ [][NextIsTeachIn]_vars

(***************************************************************************)
(* SpecNonRadio: a transceiver that sends RESPONSE, EVENT and other        *)
(* packets among its radio telegrams; the reader thread reads the stream   *)
(* in arbitrary chunks and the event loop runs the telegrams' coroutines.  *)
(***************************************************************************)
MaxWire == 2

WireFrame(packet_type, data, optional) ==
    [packet_type |-> packet_type, data |-> data, optional |-> optional]

\* an RPS telegram and a 4BS teach-in telegram of an unregistered sender
WireRadio ==
    {WireFrame(PACKET_TYPE_RADIO, RadioData(246, <<85>>, SenderOther, 48), <<>>),
     WireFrame(PACKET_TYPE_RADIO, RadioData(165, <<0, 0, 0, 0>>, SenderOther, 0),
               RssiOptional)}
\* a RESPONSE, an EVENT whose data block reads like a 4BS teach-in telegram, and
\* a packet of a type the reader has no branch for (REMOTE_MAN_COMMAND)
WireOther ==
    {WireFrame(PACKET_TYPE_RESPONSE, <<0>>, <<>>),
     WireFrame(PACKET_TYPE_EVENT, RadioData(165, <<0, 0, 0, 0>>, SenderThermo, 0),
               RssiOptional),
     WireFrame(7, <<85, 0>>, <<85>>)}

Wires == {w \in SeqsUpTo(WireRadio \cup WireOther, MaxWire) :
             \E i \in 1..Len(w) : w[i] \in WireOther}

RECURSIVE WireBytes(_)
WireBytes(w) ==
    IF w = <<>> THEN <<>>
    ELSE Esp3Frame(Head(w).packet_type, Head(w).data, Head(w).optional) \o WireBytes(Tail(w))

InitNonRadio ==
    /\ wire \in Wires
    /\ teach_in_call = None /\ profiles = <<>> /\ custom_eep = <<>> /\ LifeInit
    /\ rx = WireBytes(wire)
    /\ buffer = <<>> /\ emitted = <<>>
    /\ tasks = <<>>
    /\ SendInit /\ ResyncInit
    /\ RegistryInit /\ BufferInit /\ clock = 0 /\ ClientInit /\ CallInit
    /\ StoreInit /\ ConfigInit /\ ReaderInit /\ ThreadInit
    /\ connected = TRUE
    /\ cache_states = TRUE
    /\ last_states = <<>> /\ file = None /\ published = <<>> /\ dropped = <<>>
    /\ BootInit

NextNonRadio ==
    \/ \E k \in 1..Len(rx) : FramerRead(k)
    \/ \E c \in 1..MaxWire : Advance(c)
    \/ \E on \in BOOLEAN : SetTeachInCallback(on)

SpecNonRadio == InitNonRadio /\ [][NextNonRadio]_vars

(***************************************************************************)
(* SpecProfiles: the EEP store while custom profiles are saved and deleted *)
(* through the admin API and the process restarts.                         *)
(***************************************************************************)
\* s.zfill(2)
zfill2(s) == IF Len(s) >= 2 THEN s ELSE IF Len(s) = 1 THEN <<"0">> \o s ELSE <<"0", "0">>

\* an EEPProfile
Profile(rorg, func, type, description, is_custom) ==
    [rorg |-> rorg, func |-> func, type |-> type, description |-> description,
     is_custom |-> is_custom]

\* EEPProfile.eep_id
profile_eep_id(p) == EepId(p.rorg, p.func, p.type)

\* _load_base_eep: the profiles of the library, none of them custom
BaseProfiles ==
    LET base == <<Profile(Chars("A", "5"), Chars("0", "2"), Chars("0", "5"), "base", FALSE),
                  Profile(Chars("F", "6"), Chars("0", "2"), Chars("0", "1"), "base", FALSE)>>
    IN  [i \in 1..Len(base) |-> <<profile_eep_id(base[i]), base[i]>>]

\* the EEPProfile that save_custom_profile and _load_custom_profiles build from a
\* `profile:` document
CustomProfile(profile_data) ==
    Profile(str_upper(profile_data.rorg), zfill2(str_upper(profile_data.func)),
            zfill2(str_upper(profile_data.type)), profile_data.description, TRUE)

\* _load_custom_profiles: every file that holds a profile document is put over
\* the profiles loaded so far; an empty file is passed over
RECURSIVE LoadCustomProfiles(_, _)
LoadCustomProfiles(profs, files) ==
    IF files = <<>> THEN profs
    ELSE LET doc == Head(files)[2]
             next == IF doc = None THEN profs
                     ELSE DictSet(profs, profile_eep_id(CustomProfile(doc[1])),
                                  CustomProfile(doc[1]))
         IN  LoadCustomProfiles(next, Tail(files))

\* initialize()
InitializeProfiles(files) == LoadCustomProfiles(BaseProfiles, files)

\* del self.profiles[eep_id.upper()]
DeleteProfile(profs, id) == DictDel(profs, id)

\* the profile documents the admin API is given
ProfileDocs ==
    {[rorg |-> r, func |-> f, type |-> t, description |-> "custom"] :
        r \in {Chars("a", "5"), Chars("D", "2")}, f \in {<<"2">>, Chars("0", "1")},
        t \in {Chars("0", "5")}}

ProfileIds == {EepId(Chars("A", "5"), Chars("0", "2"), Chars("0", "5")),
               EepId(Chars("a", "5"), Chars("0", "2"), Chars("0", "5")),
               EepId(Chars("F", "6"), Chars("0", "2"), Chars("0", "1")),
               EepId(Chars("D", "2"), Chars("0", "1"), Chars("0", "5"))}

profileOther == <<framerVars, tasks, sendVars, resyncVars, registryVars, bufferVars, clock,
                  mqttVars, bootVars, clientVars, callVars, storeVars, configVars,
                  readerVars, threadVars, teach_in_call, wire, lifeVars>>

InitProfiles ==
    /\ FramerInit /\ SendInit /\ ResyncInit
    /\ tasks = <<>>
    /\ RegistryInit /\ BufferInit /\ clock = 0 /\ MqttInit /\ BootInit /\ ClientInit
    /\ CallInit /\ StoreInit /\ ConfigInit /\ ReaderInit /\ ThreadInit
    /\ teach_in_call = None /\ wire = <<>> /\ LifeInit
    /\ custom_eep = <<>>
    /\ profiles = InitializeProfiles(custom_eep)

\* save_custom_profile(profile_data): the file is opened (created or truncated)
\* and written, then the profile is put into the store; an error at either file
\* operation is caught and the call returns False
SaveCustomProfile(profile_data, outcome) ==
    LET profile == CustomProfile(profile_data)
        filename == profile_eep_id(profile)
    IN  /\ custom_eep' =
               CASE outcome = "open_fails" -> custom_eep
                 [] outcome = "write_fails" -> DictSet(custom_eep, filename, None)
                 [] OTHER -> DictSet(custom_eep, filename, Some(profile_data))
        /\ profiles' = IF outcome = "ok"
                       THEN DictSet(profiles, profile_eep_id(profile), profile)
                       ELSE profiles
        /\ UNCHANGED profileOther

\* delete_custom_profile(eep_id): False for an id that is not in the store or not
\* custom; else the file is removed if it exists and the id is deleted from the
\* store; an error of os.remove is caught and the call returns False
DeleteCustomProfile(id, outcome) ==
    LET key == str_upper(id)
    IN  /\ IF ~DictHas(profiles, key) \/ ~DictGet(profiles, key).is_custom
           THEN UNCHANGED <<profiles, custom_eep>>
           ELSE IF DictHas(custom_eep, key) /\ outcome = "remove_fails"
           THEN UNCHANGED <<profiles, custom_eep>>
           ELSE /\ custom_eep' = DictDel(custom_eep, key)
                /\ profiles' = DeleteProfile(profiles, key)
        /\ UNCHANGED profileOther

\* the process restarts: initialize() builds the store from the library and the
\* files
RestartProfiles ==
    /\ profiles' = InitializeProfiles(custom_eep)
    /\ UNCHANGED <<custom_eep, profileOther>>

NextProfiles ==
    \/ \E d \in ProfileDocs, outcome \in {"ok", "open_fails", "write_fails"} :
           SaveCustomProfile(d, outcome)
    \/ \E id \in ProfileIds, outcome \in {"ok", "remove_fails"} : DeleteCustomProfile(id, outcome)
    \/ RestartProfiles

SpecProfiles == InitProfiles /\ [][NextProfiles]_vars

(***************************************************************************)
(* SpecCache: the state cache and the device registry over a restart:      *)
(* states of registered devices are published, devices are deleted and     *)
(* added through the admin API, the process restarts and restores.         *)
(***************************************************************************)
InitCache ==
    /\ FramerInit /\ SendInit /\ ResyncInit
    /\ tasks = <<>>
    /\ devices = <<DeviceTank>>
    /\ lookup = None
    /\ BufferInit /\ clock = 1 /\ ClientInit /\ CallInit
    /\ ops = <<>>
    /\ devices_file = Some(JsonDevices(devices))
    /\ legacy_devices_file = Some(IniLines(devices))
    /\ ConfigInit /\ ReaderInit /\ ThreadInit /\ UnitInit
    /\ connected = FALSE
    /\ cache_states = TRUE
    /\ last_states = <<>>
    /\ file = None
    /\ published = <<>> /\ dropped = <<>>
    /\ main_pc = "connect" /\ restore_idx = 0 /\ boot_file = None
    /\ ncalls = 0 /\ nrestarts = 0

\* no add_device or delete_device is between its registry change and its return
StoreQuiet == \A c \in 1..Len(ops) : ops[c].pc = "done"

\* a telegram of a registered device has been decoded: publish_state is called
\* with the device's name
RegisteredPublish ==
    \E i \in 1..Len(devices) : PublishStateCall(devices[i].name, Body(42))

\* the process is stopped and started again once the device store is at rest;
\* the registry is loaded from the files the last save wrote
RestartCache == StoreQuiet /\ Restart

NextCache ==
    \/ OnConnect
    \/ ConnectReturns
    \/ LoadPersistedStates
    \/ RestoreNext
    \/ PublishAllDiscoveries
    \/ RegisteredPublish
    \/ \E c \in 1..MaxCalls : Advance(c)
    \/ main_pc = "serving" /\ StoreQuiet /\ DeleteDevice("tank")
    \/ main_pc = "serving" /\ StoreQuiet /\ AddDevice(DeviceTank)
    \/ \E c \in 1..MaxOps : OpStep(c, "ok")
    \/ RestartCache

SpecCache == InitCache /\ [][NextCache]_vars

(***************************************************************************)
(* SpecReconnect: connect(), disconnect() and the two HTTP handlers that   *)
(* reconnect, with every reader thread that was started. The handlers run  *)
(* on the event loop: one runs until it awaits something that suspends.    *)
(* Time is as in SpecReader.                                               *)
(***************************************************************************)
MaxThreads == 3

\* threading.Thread(target=self._read_loop_thread, ...).start(): a thread at the
\* top of its loop with its own empty `buffer`
NewReader == [pc |-> "test", age |-> 0, buffer |-> <<>>]

Alive(rs) == {i \in 1..Len(rs) : rs[i].pc # "stopped"}

reconnectOther ==
    <<buffer, sent, writes, resyncVars, registryVars, bufferVars, clock,
      cache_states, last_states, file, published, dropped, bootVars, will, commands,
      callVars, storeVars, configVars, threadVars, teach_in_call, wire, profiles,
      custom_eep, message_callbacks, broker_subs,
      reader_pc, read_age, read_failed, disc_pc>>

\* after the lifespan start-up: connect() has opened the port and started the
\* first reader thread
InitReconnect ==
    /\ rx = FrameRps \o FrameRps
    /\ buffer = <<>> /\ emitted = <<>>
    /\ tasks = <<>>
    /\ sh_connected = TRUE /\ sent = None /\ writes = <<>>
    /\ ResyncInit /\ RegistryInit /\ BufferInit /\ clock = 0 /\ MqttInit /\ BootInit
    /\ ClientInit /\ CallInit /\ StoreInit /\ ConfigInit /\ ThreadInit
    /\ teach_in_call = None /\ wire = <<>> /\ profiles = <<>> /\ custom_eep = <<>>
    /\ message_callbacks = <<>> /\ broker_subs = {}
    /\ running = TRUE /\ reader_pc = "none" /\ read_age = 0 /\ transport = "up"
    /\ read_failed = FALSE /\ disc_pc = "idle" /\ join_wait = 0
    /\ readers = <<NewReader>>
    /\ restart_pc = "idle"

\* connect(): the port is opened, both flags are set, a thread is started and
\* kept in _read_thread
ConnectCall ==
    /\ transport' = "up"
    /\ sh_connected' = TRUE
    /\ running' = TRUE
    /\ readers' = Append(readers, NewReader)

\* reader thread i at `while self._running`
ThreadTest(i) ==
    /\ readers[i].pc = "test"
    /\ readers' = [readers EXCEPT ![i].pc = IF while_running(running) THEN "read" ELSE "stopped",
                                  ![i].age = 0]
    /\ UNCHANGED <<framerVars, tasks, sh_connected, running, transport, join_wait, restart_pc,
                   connected, subscriptions, reconnectOther>>

\* the blocking read of reader thread i returns k bytes of the stream (none when
\* it timed out, or at once when there is no port) and the rest of the loop body
\* runs on the thread's own buffer
ThreadRead(i, k) ==
    /\ readers[i].pc = "read"
    /\ IF transport = "up"
       THEN \/ k > 0 /\ k <= Len(rx)
            \/ k = 0 /\ readers[i].age = ReadTimeout
       ELSE k = 0
    /\ LET data == read_bytes(transport, SubSeq(rx, 1, k)).data
           r == ParseLoop(readers[i].buffer \o data, <<>>)
       IN  /\ readers' = [readers EXCEPT ![i] = [pc |-> "test", age |-> 0, buffer |-> r.buffer]]
           /\ emitted' = emitted \o r.out
           /\ tasks' = tasks \o DispatchAll(r.out)
           /\ rx' = SubSeq(rx, k + 1, Len(rx))
    /\ UNCHANGED <<sh_connected, running, transport, join_wait, restart_pc,
                   connected, subscriptions, reconnectOther>>

\* restart_services up to the join of disconnect(), which blocks the event loop;
\* with the handler not connected, up to the first sleep of mqtt connect()
RestartServices ==
    /\ restart_pc = "idle"
    /\ Len(readers) < MaxThreads
    /\ IF sh_connected
       THEN /\ running' = FALSE
            /\ restart_pc' = "join"
            /\ join_wait' = 0
            /\ UNCHANGED connected
       ELSE /\ restart_pc' = "mqtt"
            /\ connected' = FALSE
            /\ UNCHANGED <<running, join_wait>>
    /\ UNCHANGED <<framerVars, tasks, sh_connected, transport, readers, subscriptions,
                   reconnectOther>>

\* join returns, because the thread in _read_thread has ended or the timeout has
\* passed; the port is closed and dropped, _connected is cleared; the MQTT handler
\* is disconnected and its connect() reaches its first sleep
RestartJoinReturns ==
    /\ restart_pc = "join"
    /\ readers[Len(readers)].pc = "stopped" \/ join_wait = JoinTimeout
    /\ transport' = "gone"
    /\ sh_connected' = FALSE
    /\ connected' = FALSE
    /\ restart_pc' = "mqtt"
    /\ UNCHANGED <<framerVars, tasks, running, join_wait, readers, subscriptions,
                   reconnectOther>>

\* mqtt connect() has returned, connected or not after its 5 seconds; the serial
\* handler's connect() is called whatever is_connected says. When the port cannot
\* be opened the handler answers 500.
RestartConnect(opened) ==
    /\ restart_pc = "mqtt"
    /\ restart_pc' = "idle"
    /\ IF opened THEN ConnectCall ELSE UNCHANGED <<transport, sh_connected, running, readers>>
    /\ UNCHANGED <<framerVars, tasks, join_wait, connected, subscriptions, reconnectOther>>

\* test_connection: connect() when is_connected is false. It runs when the event
\* loop is free: no handler is running, or restart_services sleeps in mqtt connect()
TestConnection ==
    /\ restart_pc \in {"idle", "mqtt"}
    /\ Len(readers) < MaxThreads
    /\ ~sh_connected
    /\ ConnectCall
    /\ UNCHANGED <<framerVars, tasks, join_wait, restart_pc, connected, subscriptions,
                   reconnectOther>>

\* one second passes: no thread is computing, no read has reached its timeout or
\* returns at once, and a join has neither reached its timeout nor can return
ReconnectTick ==
    /\ (\E i \in 1..Len(readers) : readers[i].pc = "read") \/ restart_pc = "join"
    /\ \A i \in 1..Len(readers) :
           /\ readers[i].pc # "test"
           /\ readers[i].pc = "read" => transport = "up" /\ readers[i].age < ReadTimeout
    /\ restart_pc = "join" => join_wait < JoinTimeout /\ readers[Len(readers)].pc # "stopped"
    /\ readers' = [i \in 1..Len(readers) |->
                      IF readers[i].pc = "read"
                      THEN [readers[i] EXCEPT !.age = readers[i].age + 1]
                      ELSE readers[i]]
    /\ join_wait' = IF restart_pc = "join" THEN join_wait + 1 ELSE join_wait
    /\ UNCHANGED <<framerVars, tasks, sh_connected, running, transport, restart_pc,
                   connected, subscriptions, reconnectOther>>

NextReconnect ==
    \/ \E i \in 1..Len(readers) : ThreadTest(i)
    \/ \E i \in 1..Len(readers), k \in {0, 7, Len(FrameRps)} : ThreadRead(i, k)
    \/ RestartServices
    \/ RestartJoinReturns
    \/ \E opened \in BOOLEAN : RestartConnect(opened)
    \/ TestConnection
    \/ OnConnect
    \/ ReconnectTick

SpecReconnect == InitReconnect /\ [][NextReconnect]_vars

(***************************************************************************)
(* SpecSubscribe: subscribe() and the connect and disconnect callbacks,    *)
(* with what the broker holds for the client. The client is created with   *)
(* mqtt.Client(client_id=...), a clean session: the broker starts every    *)
(* connection of the client without subscriptions.                         *)
(***************************************************************************)
MaxSubscribed == 5      \* client.subscribe calls in a behaviour

\* topic patterns and callbacks given to subscribe()
SubscribePatterns == {<<Prefix, "+", "state">>, <<"homeassistant", "status">>}
SubscribeCallbacks == {"on_state", "on_status"}

subscribeOther ==
    <<framerVars, tasks, sendVars, resyncVars, registryVars, bufferVars, clock,
      cache_states, last_states, file, published, dropped, bootVars, will, commands,
      callVars, storeVars, configVars, readerVars, threadVars, teach_in_call, wire,
      profiles, custom_eep, readers, restart_pc>>

\* connect() has created the client and started its network loop; the broker has
\* not answered yet
InitSubscribe ==
    /\ FramerInit /\ SendInit /\ ResyncInit
    /\ tasks = <<>>
    /\ RegistryInit /\ BufferInit /\ clock = 0 /\ MqttInit /\ BootInit /\ ClientInit
    /\ CallInit /\ RestInit

\* _on_connect with rc = 0, on the first connection and on every reconnection
OnConnectSession ==
    /\ ~connected
    /\ Len(subscriptions) < MaxSubscribed
    /\ connected' = TRUE
    /\ subscriptions' = Append(subscriptions, CommandTopicPattern)
    /\ broker_subs' = {CommandTopicPattern}
    /\ UNCHANGED <<message_callbacks, subscribeOther>>

\* _on_disconnect: the connection is lost and the broker drops the session
OnDisconnectSession ==
    /\ connected
    /\ connected' = FALSE
    /\ broker_subs' = {}
    /\ UNCHANGED <<subscriptions, message_callbacks, subscribeOther>>

\* subscribe(topic_pattern, callback)
Subscribe(topic_pattern, callback) ==
    /\ Len(subscriptions) < MaxSubscribed
    /\ message_callbacks' = DictSet(message_callbacks, topic_pattern, callback)
    /\ IF connected
       THEN /\ subscriptions' = Append(subscriptions, topic_pattern)
            /\ broker_subs' = broker_subs \cup {topic_pattern}
       ELSE UNCHANGED <<subscriptions, broker_subs>>
    /\ UNCHANGED <<connected, subscribeOther>>

NextSubscribe ==
    \/ OnConnectSession
    \/ OnDisconnectSession
    \/ \E p \in SubscribePatterns, cb \in SubscribeCallbacks : Subscribe(p, cb)

SpecSubscribe == InitSubscribe /\ [][NextSubscribe]_vars

(***************************************************************************)
(* Claims about the framer.                                                *)
(***************************************************************************)
PacketOf(e) == [packet_type |-> e.packet_type, data |-> e.data, optional |-> e.optional]

\* C1: the bytes send_telegram builds, read back from an empty buffer, give exactly
\* one RADIO_ERP1 packet with the data block and the optional block that were
\* serialised, and leave the buffer empty; before the last byte is read nothing is
\* emitted; a send while not connected transmits nothing.
C1_RoundTrip ==
    /\ sent # None /\ sent[1].ok /\ rx = <<>> =>
          /\ Len(emitted) = 1
          /\ PacketOf(emitted[1]) = [packet_type |-> PACKET_TYPE_RADIO,
                                     data |-> sent[1].packet_data,
                                     optional |-> sent[1].optional]
          /\ buffer = <<>>
          /\ Len(tasks) = 1
          /\ tasks[1].data = sent[1].packet_data
          /\ tasks[1].optional = sent[1].optional
    /\ sent # None /\ sent[1].ok /\ rx # <<>> => emitted = <<>>
    /\ sent # None /\ ~sent[1].ok => emitted = <<>> /\ rx = <<>> /\ buffer = <<>>

C1_Witness ==
    /\ sent # None /\ sent[1].ok /\ rx = <<>>
    /\ Len(emitted) = 1
    /\ Len(emitted[1].data) = 6 + MaxPayload
    /\ emitted[1].optional = <<3, 0, 85, 0, 85, 255, 0>>

\* s[i..] starts with a complete frame whose two CRCs are right
FrameAt(s, i) ==
    LET b == SubSeq(s, i, Len(s))
    IN  /\ Len(b) >= 7
        /\ b[1] = SYNC_BYTE
        /\ crc8(SubSeq(b, 2, 5)) = b[6]
        /\ Len(b) >= 7 + b[2] * 256 + b[3] + b[4]
        /\ crc8(SubSeq(b, 7, 6 + b[2] * 256 + b[3] + b[4])) = b[7 + b[2] * 256 + b[3] + b[4]]

ContainsValidFrame(s) == \E i \in 1..Len(s) : FrameAt(s, i)

\* a position of j is a sync byte followed, in j \o b, by four bytes and their CRC-8
FalseHeaderIn(j, b) ==
    \E i \in 1..Len(j) :
        LET t == SubSeq(j \o b, i, Len(j) + Len(b))
        IN  Len(t) >= 6 /\ t[1] = SYNC_BYTE /\ crc8(SubSeq(t, 2, 5)) = t[6]

\* C2 as stated: junk that holds no valid frame, put in front of a stream, does not
\* change the packets parsed from the stream.
C2_ResyncAnyJunk == fed /\ ~ContainsValidFrame(junk) => outJB = outB

\* C2 amended: junk in which no sync byte starts a header with a right header CRC
\* (the bytes of the stream that follow counted in), put in front of a stream, does
\* not change the packets parsed from the stream.
C2_ResyncNoFalseHeader == fed /\ ~FalseHeaderIn(junk, rest) => outJB = outB

C2_Witness ==
    /\ fed /\ junk = HeaderBadCrc /\ ~FalseHeaderIn(junk, rest)
    /\ Len(outB) = 2 /\ outJB = outB

\* C3: every emitted packet was cut from bytes that start with the sync byte, carry
\* the CRC-8 of the four header bytes as sixth byte, hold data and optional blocks
\* of the lengths the header gives and end with the CRC-8 of data followed by
\* optional; the coroutines handed to the event loop are the emitted RADIO packets.
ValidatedPacket(e) ==
    LET r == e.raw
        n == Len(e.data)
        m == Len(e.optional)
    IN  /\ Len(r) = 7 + n + m
        /\ r[1] = SYNC_BYTE
        /\ r[6] = crc8(SubSeq(r, 2, 5))
        /\ n = r[2] * 256 + r[3]
        /\ m = r[4]
        /\ e.packet_type = r[5]
        /\ e.data = SubSeq(r, 7, 6 + n)
        /\ e.optional = SubSeq(r, 7 + n, 6 + n + m)
        /\ r[7 + n + m] = crc8(e.data \o e.optional)

RadioPackets(out) == SelectSeq(out, LAMBDA e : e.packet_type = PACKET_TYPE_RADIO)

C3_OnlyValidated ==
    /\ \A i \in 1..Len(emitted) : ValidatedPacket(emitted[i])
    /\ Len(tasks) = Len(RadioPackets(emitted))
    /\ \A i \in 1..Len(tasks) :
          /\ tasks[i].data = RadioPackets(emitted)[i].data
          /\ tasks[i].optional = RadioPackets(emitted)[i].optional

\* a frame with a wrong data CRC has gone through the parser and a valid frame
\* after it was emitted
C3_Witness ==
    /\ rx = <<>> /\ buffer = <<>>
    /\ Len(emitted) = 1 /\ emitted[1].raw = FrameRps
    /\ Len(tasks) = 1

(***************************************************************************)
(* Claims about the registry lookup and the telegram dispatcher.           *)
(***************************************************************************)
\* an address with its leading 0x stripped, uppercased, and 0x put back
NormalisedAddress(a) ==
    Prefix0x \o str_upper(IF startswith(a, Prefix0x) THEN SubSeq(a, 3, Len(a)) ELSE a)

\* the positions of the devices whose address equals `address` once both are
\* normalised
Matches(devs, address) ==
    {i \in 1..Len(devs) : NormalisedAddress(devs[i].address) = NormalisedAddress(address)}

FirstMatch(devs, address) ==
    devs[CHOOSE i \in Matches(devs, address) : \A j \in Matches(devs, address) : i <= j]

\* C4: get_device_by_address(a) returns the first device in registry order whose
\* normalised address equals the normalised a, and no device only when no
\* registered address matches
C4_AddressLookup ==
    lookup # None =>
        IF Matches(devices, lookup[1].address) = {}
        THEN lookup[1].result = None
        ELSE lookup[1].result = Some(FirstMatch(devices, lookup[1].address))

TelegramOf(t) == Telegram(t.data, t.optional)
IsRadioTelegram(t) == t.kind = "telegram" /\ Len(t.data) >= 6
PublishesOf(c) == {i \in 1..Len(published) : published[i].src = c}
DropsOf(c) == {i \in 1..Len(dropped) : dropped[i].src = c}
RingEntriesOf(c) == {i \in 1..Len(ring) : ring[i].src = c}

\* C5: a telegram of at least 6 data bytes whose sender is the address of a
\* registered device with a profile in the store, processed while the handler is
\* connected, gets exactly one retained publish to P/<name>/state with the
\* decoded map
C5_KnownDispatch ==
    \A c \in 1..Len(tasks) :
        LET t == tasks[c]
            sender == sender_hex(TelegramOf(t))
            device == FirstMatch(devices, sender)
        IN  ( /\ IsRadioTelegram(t) /\ t.pc = "done"
              /\ Matches(devices, sender) # {}
              /\ get_profile(eep_id(device)) # None
              /\ connected /\ DropsOf(c) = {} )
            => /\ Cardinality(PublishesOf(c)) = 1
               /\ \A i \in PublishesOf(c) :
                      /\ published[i].topic = StateTopic(device.name)
                      /\ published[i].retain
                      /\ published[i].payload.body =
                             Decode(TelegramOf(t), get_profile(eep_id(device))[1])

\* C9: a telegram whose sender matches no registered device causes no publish and
\* no change of the state cache, is in the ring buffer without device name, EEP
\* id and decoded map, and its sender has an unknown-sender record
C9_UnknownSender ==
    \A c \in 1..Len(tasks) :
        LET t == tasks[c]
            sender == sender_hex(TelegramOf(t))
        IN  ( /\ IsRadioTelegram(t) /\ t.pc \in {"done", "failed"}
              /\ Matches(devices, sender) = {} )
            => /\ PublishesOf(c) = {}
               /\ t.state = None
               /\ Cardinality(RingEntriesOf(c)) = 1
               /\ \A i \in RingEntriesOf(c) :
                      /\ ring[i].sender_id = sender
                      /\ ring[i].device_name = None
                      /\ ring[i].eep_id = None
                      /\ ring[i].decoded = None
               /\ \E i \in 1..Len(unknown_devices) : unknown_devices[i].sender_id = sender

AllProcessed == \A c \in 1..Len(tasks) : tasks[c].pc \in {"done", "failed"}
TelegramsFrom(sender) ==
    {c \in 1..Len(tasks) : IsRadioTelegram(tasks[c]) /\ sender_hex(TelegramOf(tasks[c])) = sender}
ReceivedSenders ==
    {sender_hex(TelegramOf(tasks[c])) : c \in {b \in 1..Len(tasks) : IsRadioTelegram(tasks[b])}}

\* C10: once the received telegrams are processed, a sender that is not in the
\* registry has exactly one unknown-sender record and its count is the number of
\* telegrams received from it
C10_UnknownTracking ==
    AllProcessed =>
        \A sender \in ReceivedSenders :
            Matches(devices, sender) = {} =>
                /\ Cardinality({i \in 1..Len(unknown_devices) :
                                    unknown_devices[i].sender_id = sender}) = 1
                /\ \A i \in 1..Len(unknown_devices) :
                       unknown_devices[i].sender_id = sender =>
                           unknown_devices[i].count = Cardinality(TelegramsFrom(sender))

FileHolds(f, device_name, state) ==
    /\ f # None
    /\ WellFormed(f[1])
    /\ DictHas(Loads(f[1]), device_name)
    /\ DictGet(Loads(f[1]), device_name) = state

\* C7: with caching enabled and no write error, when publish_state(d, s) returns
\* the cache file holds s, with its _last_update, under key d
C7_RetainDurability ==
    \A c \in 1..Len(tasks) :
        ( /\ tasks[c].kind = "publish_state" /\ tasks[c].pc = "done"
          /\ cache_states /\ ~tasks[c].io_failed )
        => FileHolds(tasks[c].file_at_return[1], tasks[c].device_name[1], tasks[c].state[1])

RestoresOf(device_name) ==
    {i \in 1..Len(published) : published[i].src = 0 /\ published[i].topic = StateTopic(device_name)}

\* C8: after a start with a readable cache file, every entry (name, state) of the
\* file has had one retained publish to P/<name>/state with payload state plus
\* _restored = true and the _last_update of the file
C8_StartupRestore ==
    ( /\ main_pc = "serving"
      /\ boot_file # None )
    => ( WellFormed(boot_file[1]) =>
           \A e \in 1..Len(Loads(boot_file[1])) :
               LET device_name == Loads(boot_file[1])[e][1]
                   state == Loads(boot_file[1])[e][2]
               IN  /\ Cardinality(RestoresOf(device_name)) = 1
                   /\ \A i \in RestoresOf(device_name) :
                          /\ published[i].retain
                          /\ published[i].payload = [state EXCEPT !.restored = TRUE] )

(***************************************************************************)
(* Claims about commands, the connection lifecycle and availability.       *)
(***************************************************************************)
RegisteredNames == {devices[i].name : i \in 1..Len(devices)}

\* C11: once a command for a registered device has been handled a frame has been
\* put on the transport, and commands for unregistered names put nothing on it
C11_CommandHandling ==
    IF \E i \in 1..Len(commands) : commands[i].device_name \in RegisteredNames
    THEN sent # None /\ rx # <<>>
    ELSE sent = None /\ rx = <<>>

OnlinePublishes ==
    {i \in 1..Len(published) :
        /\ published[i].topic = StatusTopic
        /\ published[i].payload = TextPayload("online")
        /\ published[i].retain}

\* C12: once start-up is over, every establishment of the connection has had its
\* subscription to P/+/set and its retained online on P/status, and the connected
\* flag is false after a disconnect until the next connect
C12_ConnectLifecycle ==
    main_pc = "serving" =>
        /\ \A i \in 1..Len(subscriptions) : subscriptions[i] = CommandTopicPattern
        /\ Cardinality(OnlinePublishes) = Len(subscriptions)

OfflinePublishes ==
    {i \in 1..Len(published) :
        /\ published[i].topic = StatusTopic
        /\ published[i].payload = TextPayload("offline")
        /\ published[i].retain}

\* C13: when the handler has been shut down, retained offline was published to
\* P/status before the disconnect, and the connection carries a retained
\* Last-Will offline on P/status
C13_OfflineAvailability ==
    main_pc = "stopped" =>
        /\ OfflinePublishes # {}
        /\ will = Some([topic |-> StatusTopic, payload |-> TextPayload("offline"),
                        retain |-> TRUE])

\* coroutine c runs publish_state from its entry to its first suspension or its end
EntersPublishState(c) == tasks[c].pc = "start" /\ tasks'[c].pc # "start"
\* coroutine c leaves publish_state
LeavesPublishState(c) == tasks[c].pc # "done" /\ tasks'[c].pc # tasks[c].pc
                             /\ tasks'[c].pc \in {"done", "failed"}

\* C14: in a step taken while the handler is not connected nothing is sent to the
\* broker; a publish_state entered then puts the call's snapshot in the in-memory
\* cache and goes on to rewrite the cache file when caching is enabled; a
\* publish_state that reaches its publish then returns at once, without an error,
\* its message dropped, the file holding the text it wrote unless the file
\* operation failed
C14_PublishWhileDisconnected ==
    [][~connected =>
         /\ published' = published
         /\ \A c \in 1..Len(tasks) :
                /\ EntersPublishState(c) /\ cache_states =>
                       /\ DictHas(last_states', tasks[c].device_name[1])
                       /\ DictGet(last_states', tasks[c].device_name[1]) = tasks'[c].state[1]
                       /\ tasks'[c].state[1].body = tasks[c].state[1].body
                       /\ tasks'[c].pc = "open_wait"
                /\ LeavesPublishState(c) =>
                       /\ tasks'[c].pc = "done"
                       /\ dropped' = Append(dropped, [topic |-> StateTopic(tasks[c].device_name[1]),
                                                      src |-> c])
                       /\ cache_states /\ ~tasks'[c].io_failed =>
                              tasks'[c].content # None /\ file' # None]_vars

\* a publish_state call with caching on has returned with its message dropped and
\* its text written
C14_Witness ==
    \E c \in 1..Len(tasks) :
        /\ tasks[c].kind = "publish_state" /\ tasks[c].pc = "done"
        /\ DropsOf(c) # {} /\ PublishesOf(c) = {}
        /\ cache_states /\ tasks[c].content # None /\ ~tasks[c].io_failed
        /\ DictHas(last_states, tasks[c].device_name[1])
        /\ file # None

\* C15: the coroutines handed over by the reader thread and not yet started by
\* the event loop never number more than 1024
C15_Backpressure == Cardinality(Pending) <= PendingCapacity

(***************************************************************************)
(* Claims about teach-in telegrams.                                        *)
(***************************************************************************)
Finished(t) == t.pc \in {"done", "failed"}

\* C16: a telegram detected as a teach-in is, once its coroutine has ended, in the
\* ring buffer exactly once with is_teach_in set, whatever the teach-in callback
\* did
C16_TeachInContinues ==
    \A c \in 1..Len(tasks) :
        IsRadioTelegram(tasks[c]) /\ IsTeachIn(TelegramOf(tasks[c])) /\ Finished(tasks[c]) =>
            /\ tasks[c].pc = "done"
            /\ Cardinality(RingEntriesOf(c)) = 1
            /\ \A i \in RingEntriesOf(c) : ring[i].is_teach_in

\* a telegram with rorg A5 and payload 00 00 00 00
IsZero4BS(t) ==
    IsRadioTelegram(t) /\ TelegramOf(t).rorg = 165 /\ TelegramOf(t).data = <<0, 0, 0, 0>>

\* C17: when the coroutine of a telegram with rorg A5 and payload 00 00 00 00
\* starts while a teach-in callback is set, the callback is given a record with
\* func 00 and type 00 for the telegram's sender; no state publish is issued or
\* attempted for such a telegram at any step
C17_TeachIn4BS ==
    [][\A c \in 1..Len(tasks) :
           IsZero4BS(tasks[c]) =>
               /\ tasks[c].pc = "start" /\ tasks'[c].pc # "start" /\ teach_in_callback =>
                      /\ Len(teach_log') = Len(teach_log) + 1
                      /\ teach_log'[Len(teach_log')].func = "00"
                      /\ teach_log'[Len(teach_log')].type = "00"
                      /\ teach_log'[Len(teach_log')].rorg = "A5"
                      /\ teach_log'[Len(teach_log')].sender_id = sender_hex(TelegramOf(tasks[c]))
                      /\ tasks'[c].is_teach_in
               /\ \A i \in 1..Len(published') : published'[i].src # c
               /\ \A i \in 1..Len(dropped') : dropped'[i].src # c]_vars

\* the callback has been given the record of a 00 00 00 00 telegram of a registered
\* sender, and the telegram's coroutine has ended
C17_Witness ==
    \E c \in 1..Len(tasks) :
        /\ IsZero4BS(tasks[c]) /\ tasks[c].pc = "done" /\ tasks[c].is_teach_in
        /\ Matches(devices, sender_hex(TelegramOf(tasks[c]))) # {}
        /\ \E i \in 1..Len(teach_log) :
               /\ teach_log[i].func = "00" /\ teach_log[i].type = "00"
               /\ teach_log[i].sender_id = sender_hex(TelegramOf(tasks[c]))
        /\ PublishesOf(c) = {} /\ DropsOf(c) = {}

(***************************************************************************)
(* Claims about the decoder.                                               *)
(***************************************************************************)
RECURSIVE DataInt(_)
\* int.from_bytes(data, 'big')
DataInt(bs) == IF bs = <<>> THEN 0 ELSE 256 * DataInt(SubSeq(bs, 1, Len(bs) - 1)) + bs[Len(bs)]

RECURSIVE Pow2(_)
Pow2(n) == IF n = 0 THEN 1 ELSE 2 * Pow2(n - 1)

Fits(f, payload) == Len(payload) * 8 >= f.offset + f.size
\* (payload_int >> (payload_bits - offset - size)) & ((1 << size) - 1)
ShiftMask(f, payload) ==
    (DataInt(payload) \div Pow2(Len(payload) * 8 - f.offset - f.size)) % Pow2(f.size)
\* what the decoded map holds for a field whose extracted value is raw
FieldValue(f, raw) ==
    IF f.type = "value" /\ f.max # f.min THEN DecV(Scaled(f, raw)) ELSE IntV(raw)

DistinctShortcuts(fs) ==
    /\ \A i, j \in 1..Len(fs) : fs[i].shortcut = fs[j].shortcut => i = j
    /\ \A i \in 1..Len(fs) : fs[i].shortcut \notin {"sender_id", "rssi"}

\* the statement about one call: each field's shortcut is a key exactly when the
\* field fits, and then holds the value extracted by shift and mask
DecodeBoundaries(call) ==
    \A i \in 1..Len(call.fields) :
        LET f == call.fields[i]
            decoded == call.decoded[1]
        IN  /\ DictHas(decoded, Key(f.shortcut)) <=> Fits(f, call.payload)
            /\ Fits(f, call.payload) =>
                   DictGet(decoded, Key(f.shortcut)) = FieldValue(f, ShiftMask(f, call.payload))

Min(a, b) == IF a <= b THEN a ELSE b
\* the last n items of a sequence
LastN(q, n) == SubSeq(q, Len(q) - n + 1, Len(q))

\* C19: the ring buffer holds at most max_size entries, and they are the most
\* recent min(n, max_size) of the n entries added, in insertion order
C19_RingBuffer ==
    /\ Len(ring) <= max_size
    /\ ring = LastN(added, Min(Len(added), max_size))

\* more entries have been added than a buffer of at least two entries holds
C19_Witness == max_size >= 2 /\ Len(added) > max_size /\ Len(ring) = max_size

(***************************************************************************)
(* Claims about the mapping manager.                                       *)
(***************************************************************************)
\* the mapping of an EEP id in a table, empty when the id is not in it
MappingOf(table, id) == IF DictHas(table, id) THEN DictGet(table, id) ELSE <<>>

\* custom-mapping union default-mapping with the custom entry taking precedence
\* for each shortcut
EffectiveMapping(custom, id) ==
    LET c == MappingOf(custom, str_upper(id))
        d == MappingOf(DEFAULT_MAPPINGS, str_upper(id))
    IN  [sc \in DictKeys(c) \union DictKeys(d) |->
            IF DictHas(c, sc) THEN DictGet(c, sc) ELSE DictGet(d, sc)]

\* C20: the mapping get_mapping returned has exactly the shortcuts of the custom
\* and the default mapping of the EEP id, each with the custom entry where there
\* is one and the default entry otherwise
C20_EffectiveMapping ==
    mapping_call # None =>
        LET result == mapping_call[1].result
            expected == EffectiveMapping(mapping_call[1].custom, mapping_call[1].eep_id)
        IN  /\ DictKeys(result) = DOMAIN expected
            /\ \A sc \in DictKeys(result) : DictGet(result, sc) = expected[sc]

(***************************************************************************)
(* Claims about the device store.                                          *)
(***************************************************************************)
DeviceSet(devs) == {devs[i] : i \in 1..Len(devs)}

\* the JSON store, or the INI store, holds exactly these devices
JsonHolds(f, devs) ==
    /\ f # None /\ JsonLoadDevices(f[1]) # None
    /\ DeviceSet(JsonLoadDevices(f[1])[1]) = DeviceSet(devs)
IniHolds(f, devs) ==
    /\ f # None /\ IniLoadDevices(f[1]) # None
    /\ DeviceSet(IniLoadDevices(f[1])[1]) = DeviceSet(devs)

\* C21: when add_device, update_device or delete_device returns true, with no
\* file operation of the call having failed, the JSON store and the INI store
\* each hold exactly the devices of the registry
C21_DevicePersistence ==
    \A c \in 1..Len(ops) :
        ops[c].result = "true" /\ ~ops[c].io_failed =>
            /\ JsonHolds(ops[c].at_return[1].devices_file, ops[c].at_return[1].devices)
            /\ IniHolds(ops[c].at_return[1].legacy_devices_file, ops[c].at_return[1].devices)

\* C22: an add_device whose name is in the registry, and an update_device or
\* delete_device whose name is not, returns false at once and leaves the registry
\* and both files as they were
C22_NameUniqueness ==
    [][Len(ops') = Len(ops) + 1 =>
          LET op == ops'[Len(ops')]
              present == \E i \in 1..Len(devices) : devices[i].name = op.name
          IN  (IF op.kind = "add" THEN present ELSE ~present) =>
                  /\ op.result = "false" /\ op.pc = "done"
                  /\ devices' = devices
                  /\ devices_file' = devices_file
                  /\ legacy_devices_file' = legacy_devices_file]_vars

\* an add_device of a registered name and an update_device or delete_device of an
\* unregistered name have both returned false
C22_Witness ==
    /\ devices # <<>>
    /\ \E c \in 1..Len(ops) : ops[c].kind = "add" /\ ops[c].result = "false"
    /\ \E c \in 1..Len(ops) : ops[c].kind \in {"update", "delete"} /\ ops[c].result = "false"

(***************************************************************************)
(* Claims about dispatch, topics and the transport.                        *)
(***************************************************************************)
FromCoroutine(p) == p.src > 0

\* the topics published by the per-call coroutines, in publish order
CoroutineTopics ==
    LET ps == SelectSeq(published, FromCoroutine)
    IN  [i \in 1..Len(ps) |-> ps[i].topic]

\* the topics of the coroutines in the order they were handed to the event loop
ArrivalTopics == [c \in 1..Len(tasks) |-> StateTopic(tasks[c].device_name[1])]

DiscoveryPublishes == SelectSeq(published, LAMBDA p : p.src = -2)

\* C24: every published discovery config of a device names the topic
\* publish_state publishes that device's state to, the command topic under the
\* configured prefix where it has one, and the availability topic under the
\* configured prefix
C24_TopicConsistency ==
    \A i \in 1..Len(DiscoveryPublishes) :
        LET d == DiscoveryPublishes[i].payload
        IN  /\ d.config.state_topic = StateTopic(d.device_name)
            /\ d.config.command_topic # None =>
                   d.config.command_topic[1] = <<prefix, d.device_name, "set">>
            /\ d.config.availability = <<prefix, "status">>

\* C25: once a read of the reader thread has met a failed transport and the loop
\* body has run, the reader loop has stopped and is_connected is false
C25_TransportFailure ==
    read_failed /\ reader_pc # "read" => reader_pc = "stopped" /\ ~sh_connected

\* C26: once disconnect() has cleared the running flag the reader thread
\* eventually ends, and no step taken after disconnect() has returned hands a
\* telegram to the event loop
C26_ShutdownTermination ==
    /\ (disc_pc # "idle") ~> (reader_pc = "stopped")
    /\ [][disc_pc = "returned" => tasks' = tasks]_vars

\* disconnect() has returned after waiting in join for a reader thread that was
\* blocked in its read, the thread has ended, and telegrams were handed over
C26_Witness ==
    /\ disc_pc = "returned" /\ join_wait > 0
    /\ reader_pc = "stopped"
    /\ tasks # <<>>

\* a sync byte at the head of s whose header CRC is wrong, or whose header CRC is
\* right and whose announced frame is all there with a wrong data CRC
MismatchAtHead(s) ==
    /\ Len(s) >= 6 /\ s[1] = SYNC_BYTE
    /\ \/ s[6] # crc8(SubSeq(s, 2, 5))
       \/ LET n == s[2] * 256 + s[3] + s[4]
          IN  Len(s) >= 7 + n /\ s[7 + n] # crc8(SubSeq(s, 7, 6 + n))

\* C27: on a header-CRC or data-CRC mismatch at the head of the bytes the parser
\* has, it goes on exactly as it would on the same bytes without the first one;
\* and once the whole stream is read, the valid frame that followed or lay inside
\* the false frame has been emitted
C27_SingleByteResync ==
    /\ LET s == buffer \o rx
       IN  MismatchAtHead(s) => ParseLoop(s, <<>>) = ParseLoop(Tail(s), <<>>)
    /\ rx = <<>> => Len(emitted) = 1 /\ emitted[1].raw = FrameRps

\* the stream was a false frame with a wrong data CRC that held a valid frame; the
\* valid frame was emitted and the two bytes after it are left
C27_Witness ==
    /\ rx = <<>>
    /\ Len(emitted) = 1 /\ emitted[1].raw = FrameRps
    /\ Len(buffer) = 2

\* coroutine c has replaced the snapshot of its device and its rewrite of the
\* cache file has completed: the text was handed to the file and the close that
\* flushes it has returned without an error
RewriteCompleted(c) ==
    /\ DictHas(last_states, tasks[c].device_name[1])
    /\ tasks[c].content # None
    /\ ~tasks[c].io_failed

\* C28: with caching enabled, every state message a publish_state call has handed
\* to the broker was handed over after that call had replaced the snapshot and
\* completed its rewrite of the cache file
C28_StepOrder ==
    cache_states =>
        \A i \in 1..Len(published) :
            published[i].src > 0 => RewriteCompleted(published[i].src)

\* what the ring-buffer entry of telegram t is to hold: <<device name, EEP id,
\* whether there is a decoded map>>, from the registry and the EEP store
Resolution(t) ==
    LET sender == sender_hex(TelegramOf(t))
    IN  IF Matches(devices, sender) = {} THEN <<None, None, FALSE>>
        ELSE LET device == FirstMatch(devices, sender)
             IN  <<Some(device.name), Some(eep_id(device)),
                   get_profile(eep_id(device)) # None>>

\* C29: every processed radio telegram of at least 6 data bytes has exactly one
\* ring-buffer entry; the entry has no name, EEP id and decoded map for an
\* unknown sender, name and EEP id without decoded map when the profile is
\* missing, and all three otherwise; a decoded map never comes without a name,
\* and a state publish is issued only with all three
C29_EntryResolution ==
    \A c \in 1..Len(tasks) :
        IsRadioTelegram(tasks[c]) /\ tasks[c].pc \in {"done", "failed"} =>
            /\ Cardinality(RingEntriesOf(c)) = 1
            /\ \A i \in RingEntriesOf(c) :
                   /\ <<ring[i].device_name, ring[i].eep_id, ring[i].decoded # None>>
                          = Resolution(tasks[c])
                   /\ ring[i].decoded # None => ring[i].device_name # None
            /\ PublishesOf(c) # {} => Resolution(tasks[c])[3]

\* C30: every read and write of the handler's fields is made by the event loop
\* thread, and a publish that has passed its test of the connected flag reaches
\* client.publish with the flag unchanged
C30_ThreadDiscipline ==
    /\ \A a \in accesses : a.thread = "loop"
    /\ publishing # None => connected

(***************************************************************************)
(* Claims about failed disk writes.                                        *)
(***************************************************************************)
\* the file operation the coroutine c awaited has just failed
WriteFailed(c) == ~ops[c].io_failed /\ ops'[c].io_failed

\* C31: a failed write of the device store leaves the registry as the call
\* changed it, and the add_device, update_device or delete_device that was
\* saving completes with its return value: it does not raise to its caller
C31_PersistenceFailure ==
    [][\A c \in 1..Len(ops) :
           WriteFailed(c) =>
               /\ devices' = devices
               /\ ops'[c].pc = "done"
               /\ ops'[c].result = "true"]_vars

(***************************************************************************)
(* Claims about teach-in detection.                                        *)
(***************************************************************************)
\* b & 0x08 = 0, from the value of b modulo 16
Bit3Clear(b) == b % 16 < 8

\* C32: _is_teach_in is true exactly for a 1BS telegram (rorg D5) with a payload
\* whose first byte has bit 3 clear and for a 4BS telegram (rorg A5) with at
\* least four payload bytes whose fourth has bit 3 clear; it is false for RPS,
\* VLD and every other radio type, whatever the payload
C32_TeachInDetection ==
    teach_in_call.result # None =>
        LET rorg == teach_in_call.rorg
            payload == teach_in_call.data
        IN  teach_in_call.result[1] =
                (\/ rorg = 213 /\ Len(payload) >= 1 /\ Bit3Clear(payload[1])
                 \/ rorg = 165 /\ Len(payload) >= 4 /\ Bit3Clear(payload[4]))

\* a 4BS telegram whose fourth byte has every bit but bit 3 set was found to be a
\* teach-in
C32_Witness ==
    /\ teach_in_call.result = Some(TRUE)
    /\ teach_in_call.rorg = 165
    /\ teach_in_call.data = <<8, 8, 8, 247>>

(***************************************************************************)
(* Claims about the outbound frame.                                        *)
(***************************************************************************)
\* the four bytes of w from position i are the big-endian bytes of n
BigEndianAt(w, i, n) ==
    /\ w[i] * 256 + w[i + 1] = n.hi
    /\ w[i + 2] * 256 + w[i + 3] = n.lo

\* C33: a send_telegram made while connected gives the transport one byte string in
\* one call: 0x55, the data length as 2 big-endian bytes, optional length 7, packet
\* type 1, the CRC of these four, then rorg, the data, the sender id as 4
\* big-endian bytes, status 0, then 3, the destination as 4 big-endian bytes, FF,
\* 00, and last the CRC of everything after the header CRC
C33_FrameLayout ==
    sent # None /\ sent[1].ok =>
        /\ Len(writes) = 1
        /\ LET w == writes[1]
               call == sent[1]
               n == 1 + Len(call.data) + 4 + 1
               opt == 6 + n
           IN  /\ Len(w) = 6 + n + 7 + 1
               /\ w[1] = 85
               /\ w[2] * 256 + w[3] = n /\ w[2] \in 0..255 /\ w[3] \in 0..255
               /\ w[4] = 7
               /\ w[5] = 1
               /\ w[6] = crc8(<<w[2], w[3], w[4], w[5]>>)
               /\ w[7] = call.rorg
               /\ SubSeq(w, 8, 7 + Len(call.data)) = call.data
               /\ BigEndianAt(w, 8 + Len(call.data), call.sender_id)
               /\ w[opt] = 0
               /\ w[opt + 1] = 3
               /\ BigEndianAt(w, opt + 2, call.destination)
               /\ w[opt + 6] = 255
               /\ w[opt + 7] = 0
               /\ w[opt + 8] = crc8(SubSeq(w, 7, opt + 7))

\* a telegram with the longest payload was sent from 0x05834FA4 to the broadcast
\* address
C33_Witness ==
    /\ sent # None /\ sent[1].ok
    /\ sent[1].sender_id = IdThermo /\ sent[1].destination = IdBroadcast
    /\ Len(sent[1].data) = MaxPayload
    /\ Len(writes) = 1
    /\ SubSeq(writes[1], Len(writes[1]) - 7, Len(writes[1]) - 1) = <<3, 255, 255, 255, 255, 255, 0>>

(***************************************************************************)
(* Claims about packets that are not radio telegrams.                      *)
(***************************************************************************)
\* the radio frames among the frames w, in order
RECURSIVE RadioOnly(_)
RadioOnly(w) ==
    IF w = <<>> THEN <<>>
    ELSE IF Head(w).packet_type = PACKET_TYPE_RADIO THEN <<Head(w)>> \o RadioOnly(Tail(w))
    ELSE RadioOnly(Tail(w))

\* C34: a frame with two right CRCs and a packet type other than RADIO_ERP1 leaves
\* the buffer whole; it gets no coroutine, so no ring-buffer entry, unknown-sender
\* record, teach-in callback or publish comes from it; and the frames after it are
\* parsed as they are without it: the coroutines are those of the radio frames
\* read so far, in order
C34_NonRadioPackets ==
    LET n == Len(emitted)
        radio == RadioOnly(SubSeq(wire, 1, n))
    IN  /\ n <= Len(wire)
        /\ \A i \in 1..n :
               /\ PacketOf(emitted[i]) = wire[i]
               /\ emitted[i].raw = WireBytes(<<wire[i]>>)
        /\ buffer \o rx = WireBytes(SubSeq(wire, n + 1, Len(wire)))
        /\ Len(tasks) = Len(radio)
        /\ \A c \in 1..Len(tasks) :
               /\ tasks[c].kind = "telegram"
               /\ tasks[c].data = radio[c].data
               /\ tasks[c].optional = radio[c].optional
        /\ \A i \in 1..Len(ring) : ring[i].src \in 1..Len(tasks)
        /\ Len(ring) <= Len(tasks)
        /\ \A i \in 1..Len(unknown_devices) :
               \E c \in 1..Len(tasks) :
                   unknown_devices[i].sender_id = sender_hex(TelegramOf(tasks[c]))
        /\ Len(teach_log) <= Cardinality({c \in 1..Len(tasks) : tasks[c].is_teach_in})
        /\ \A i \in 1..Len(published) : published[i].src \in 1..Len(tasks)

\* an EVENT packet that reads like a teach-in telegram of the thermometer, then
\* an RPS telegram, have been read and the telegram's coroutine has ended: one
\* coroutine, one ring-buffer entry, no teach-in record
C34_Witness ==
    /\ rx = <<>> /\ buffer = <<>>
    /\ Len(wire) = 2 /\ Len(emitted) = 2
    /\ wire[1].packet_type = PACKET_TYPE_EVENT
    /\ wire[2].packet_type = PACKET_TYPE_RADIO
    /\ teach_in_callback
    /\ Len(tasks) = 1 /\ tasks[1].pc = "done"
    /\ Len(ring) = 1 /\ ring[1].sender_id = sender_hex([sender_id |-> SenderOther])
    /\ teach_log = <<>>

(***************************************************************************)
(* Claims about the way the stream is cut into reads.                      *)
(***************************************************************************)
\* the packets emitted so far followed by those a single read of every byte still
\* on the transport would add, and the buffer that read would leave
AllAtOnce(buf, stream, out) == ParseLoop(buf \o stream, out)

\* C35: whatever bytes a read returns, the packets emitted once the whole stream
\* has been read, and the bytes then left in the buffer, are those of one read of
\* the whole stream; so every way of cutting the stream into reads emits the same
\* packets
C35_ChunkingIndependence ==
    [][/\ AllAtOnce(buffer', rx', emitted').out = AllAtOnce(buffer, rx, emitted).out
       /\ AllAtOnce(buffer', rx', emitted').buffer = AllAtOnce(buffer, rx, emitted).buffer]_vars

\* a read has ended inside the second frame of a stream: one packet is out, part
\* of the next frame is in the buffer and the rest is still to be read
C35_Witness ==
    /\ Len(emitted) = 1
    /\ buffer # <<>> /\ buffer[1] = SYNC_BYTE
    /\ rx # <<>>
    /\ Len(AllAtOnce(buffer, rx, emitted).out) = 2

(***************************************************************************)
(* Claims about frames held back in the buffer.                            *)
(***************************************************************************)
\* the length of the frame that the header at s[i..] announces
AnnouncedLen(s, i) == 6 + s[i + 1] * 256 + s[i + 2] + s[i + 3] + 1

\* s[i..] starts with a sync byte and four bytes followed by their CRC-8
HeaderAt(s, i) ==
    /\ i + 5 <= Len(s)
    /\ s[i] = SYNC_BYTE
    /\ crc8(SubSeq(s, i + 1, i + 4)) = s[i + 5]

\* the header at j, before i, announces a frame that has not arrived in full, or
\* one that passes the data CRC check and reaches over position i
HoldsBack(s, j, i) ==
    /\ j < i
    /\ HeaderAt(s, j)
    /\ \/ j + AnnouncedLen(s, j) - 1 > Len(s)
       \/ FrameAt(s, j) /\ j + AnnouncedLen(s, j) > i

\* the frame at s[i..] is among the packets out
EmittedFrom(s, i, out) ==
    \E n \in 1..Len(out) : out[n].raw = SubSeq(s, i, i + AnnouncedLen(s, i) - 1)

\* C36 as stated: when the parse loop has run on a buffer that holds every byte
\* of a frame with two right CRCs, the frame has been emitted, whatever bytes
\* come before it
C36_NoHoldBack ==
    fed => \A i \in 1..Len(junk \o rest) :
               FrameAt(junk \o rest, i) => EmittedFrom(junk \o rest, i, outJB)

\* C36 amended: the frame has been emitted unless a sync byte before it starts a
\* header with a right header CRC whose announced frame has not arrived in full,
\* or passes the data CRC check and includes the frame's first byte
C36_NoHoldBackUnlessHeader ==
    fed => \A i \in 1..Len(junk \o rest) :
               /\ FrameAt(junk \o rest, i)
               /\ \A j \in 1..(i - 1) : ~HoldsBack(junk \o rest, j, i)
               => EmittedFrom(junk \o rest, i, outJB)

\* a frame with a right header CRC and a wrong data CRC came first, complete, and
\* the valid frame after it was emitted with no byte following it
C36_Witness ==
    /\ fed /\ junk = FrameBadCrc /\ rest = FrameRps
    /\ HeaderAt(junk \o rest, 1)
    /\ Len(outJB) = 1 /\ outJB[1].raw = FrameRps

(***************************************************************************)
(* Claims about the EEP store.                                             *)
(***************************************************************************)
BaseIds == {BaseProfiles[i][1] : i \in 1..Len(BaseProfiles)}

\* C37: no save_custom_profile, delete_custom_profile or restart takes the id of
\* a library profile out of the store; a step that removes a profile removes a
\* custom one; and when the custom profile over a library id is deleted the
\* store holds the library profile of that id again
C37_BuiltinsSurvive ==
    [][/\ \A id \in BaseIds : DictHas(profiles, id) => DictHas(profiles', id)
       /\ \A id \in DictKeys(profiles) \ DictKeys(profiles') : DictGet(profiles, id).is_custom
       /\ \A id \in BaseIds :
              /\ DictHas(profiles, id) /\ DictGet(profiles, id).is_custom
              /\ DictHas(custom_eep, id) /\ ~DictHas(custom_eep', id)
              => DictHas(profiles', id) /\ ~DictGet(profiles', id).is_custom]_vars

(***************************************************************************)
(* Claims about the state cache and the registry.                          *)
(***************************************************************************)
\* the messages load_persisted_states hands to publish in this step
RestoredNow == {i \in (Len(published) + 1)..Len(published') : published'[i].src = 0}

\* C38: every state that load_persisted_states republishes after a restart is
\* published to the state topic of a device that is in the registry at that
\* moment; the state of a deleted device is not republished
C38_CacheFollowsRegistry ==
    [][\A i \in RestoredNow :
           \E n \in 1..Len(devices) : published'[i].topic = StateTopic(devices[n].name)]_vars

\* C39: at any time at most one reader thread is running its read loop on the
\* transport, across connect(), disconnect(), restart_services and test_connection
C39_SingleReader == Cardinality(Alive(readers)) <= 1

\* C40: whenever the handler is connected, every topic pattern registered through
\* subscribe() is subscribed at the broker
C40_SubscriptionsSurvive ==
    connected => DictKeys(message_callbacks) \subseteq broker_subs

====
